---- MODULE Spec2Model ----
(***************************************************************************)
(* kokorox: streaming text-to-speech pipeline.                             *)
(*                                                                         *)
(* Five state machines share this module:                                 *)
(*   SpecWs    the WebSocket server: connection tasks sharing one OrtKoko  *)
(*             session (kokorox-websocket/src/lib.rs, onn/ort_koko.rs)     *)
(*   SpecChan  the playback channel and ChannelSource (koko/src/main.rs)   *)
(*   SpecPipe  the pipe-mode session loop of main (koko/src/main.rs)       *)
(*   SpecKoko  the functions of TTSKoko (kokorox/src/tts/koko.rs)           *)
(*   SpecModels the model cache of ModelManager (kokorox/src/models.rs)     *)
(*                                                                         *)
(* Text is a sequence of tokens. A positive token is the Unicode scalar     *)
(* value of one character; a negative token -n is a run of n letters k      *)
(* (U+006B), a letter that no pattern of the program mentions. Runs keep    *)
(* the long stretches of plain text that the byte thresholds of the loop    *)
(* need small. ByteLen gives the UTF-8 width of a token, so String::len()   *)
(* is BLen and a byte slice can fall inside a character.                    *)
(***************************************************************************)
EXTENDS Integers, Sequences, FiniteSets, TLC

VARIABLES
  \* --- WebSocket server / shared model session
  wsPc,          \* per connection task: position in handle_connection
  wsLeft,        \* per connection task: sentences of the command still to synthesize
  wsSeen,        \* per connection task: the borrow flag value read by borrow_mut
  sessBorrow,    \* RefCell<Session> borrow flag: 0 unused, negative when mutably borrowed
  voices,        \* handle_connection: tts.get_available_voices()
  current_voice, \* per connection task: current_voice
  wsOut,         \* per connection task: the messages written to the socket, in order
  wsCmd,         \* per connection task: the latest command received
  wsN,           \* per connection task: commands received so far
  wsTotal,       \* per connection task: total_chunks of the synthesize command
  wsErrs,        \* per connection task: sentences of the command whose synthesis failed
  \* --- playback channel / ChannelSource
  chanQ,         \* chunks sent on the mpsc channel and not yet received
  txOpen,        \* the Sender is alive
  current,       \* ChannelSource.current: samples of the chunk being played
  yielded,       \* samples returned by ChannelSource::next so far
  srcEnded,      \* ChannelSource::next has returned None
  sentLog,       \* every chunk ever sent on the channel, in send order
  \* --- pipe mode: command line
  lan,           \* -l/--lan
  style,         \* -s/--style
  auto_detect,   \* -a/--auto-detect
  force_style,   \* --force-style
  is_custom,     \* tts.is_using_custom_voices(tts.voices_path())
  \* --- pipe mode: session
  pipePc,        \* "reading" | "flushed" | "done" | "aborted" (panic)
  buffer,        \* text read from stdin and not yet emitted
  session_language,
  session_style,
  language_detected,
  wavHead,       \* the header at the start of the WAV file
  wavData,       \* samples appended to the WAV file after its header
  wavSynced,     \* header and samples of the file as of its last flush()
  syncLog,       \* per unit: the file and its flushed part when its synthesis began
  units,         \* every unit handed to tts_raw_audio, in call order
  fed,           \* all text read from stdin so far
  nFeeds,        \* lines read so far
  detectLog,     \* calls of detect_language: text, detector outcome, result
  lastFeed,      \* what the latest loop iteration saw and did
  eofBuffer,     \* the buffer as end-of-input found it
  \* --- TTSKoko
  styles,        \* the voice bank loaded by load_voices: style name -> table
  kokoCall,      \* the latest call of a TTSKoko function and its arguments
  kokoRet,       \* what that call returned
  \* --- ModelManager (kokorox/src/models.rs)
  GLOBAL_MODEL_MANAGER,  \* the global slot: 0 for None, else the manager it holds
  mmMade,        \* how many times ModelManager::new has run
  mmHandle,      \* per task: the manager inside the Arc get_model_manager returned
  mmPc,          \* per task: position in get_model_manager / get_model_path
  mmPos,         \* per task: blocks of the download written so far
  mmCalls,       \* per task: get_model_path calls begun
  cacheFile,     \* the file at the model's cache path
  dlStarted,     \* downloads started, each with what the path held at its start
  mmRet,         \* results of get_model_path and is_model_cached, in order
  \* --- postprocess_sentences (koko/src/main.rs)
  postCall,      \* the segments handed to the latest call
  postRet        \* the sentences it returned

wsVars   == <<wsPc, wsLeft, wsSeen, sessBorrow, voices, current_voice, wsOut, wsCmd, wsN,
              wsTotal, wsErrs>>
chanVars == <<chanQ, txOpen, current, yielded, srcEnded, sentLog>>
srcVars  == <<current, yielded, srcEnded>>
cliVars  == <<lan, style, auto_detect, force_style, is_custom>>
pipeVars == <<pipePc, buffer, session_language, session_style, language_detected,
              wavHead, wavData, wavSynced, syncLog, units, fed, nFeeds, detectLog,
              lastFeed, eofBuffer>>
kokoVars == <<styles, kokoCall, kokoRet>>
modelVars == <<GLOBAL_MODEL_MANAGER, mmMade, mmHandle, mmPc, mmPos, mmCalls, cacheFile,
               dlStarted, mmRet>>
postVars == <<postCall, postRet>>
vars     == <<wsVars, chanVars, cliVars, pipeVars, kokoVars, modelVars, postVars>>

----------------------------------------------------------------------------
(* Bounds *)
NumConn      == 2
MaxSentences == 2
MaxCmds      == 2
MaxSends     == 3
MaxFeeds     == 2

(* Program constants *)
DetectMinLen  == 60     \* buffer.len() > 60 before detection
GuardLen      == 200    \* starvation guard: buffer.len() > 200, buffer[..200]
PreviewLen    == 50     \* &text_to_process[..50]
DetectMinText == 10     \* detect_language: trimmed.len() < 10

----------------------------------------------------------------------------
(* Generic sequence helpers *)
RECURSIVE Flatten(_)
Flatten(ss) == IF ss = <<>> THEN <<>> ELSE Head(ss) \o Flatten(Tail(ss))

MapSeq(Op(_), s) == [i \in 1..Len(s) |-> Op(s[i])]

Last(s) == s[Len(s)]

----------------------------------------------------------------------------
(* Characters and strings *)

\* A token above zero is the scalar value of a character (97 is a, 46 is
\* the period, 10 the newline, 8594 the arrow U+2192 that binds words in the
\* segmentation preprocessing); a token below zero is a run of letters.
InSeq(seq, x)   == \E i \in DOMAIN seq : seq[i] = x

\* a run of n letters k
Run(n) == <<0 - n>>

IsRun(t)   == t < 0
IsWs(t)    == t \in {9, 10, 11, 12, 13, 32}
IsDigit(t) == t >= 48 /\ t <= 57
IsLower(t) == t < 0 \/ (t >= 97 /\ t <= 122)
IsUpper(t) == t >= 65 /\ t <= 90
\* char::is_alphabetic, on the scripts that occur
IsAlphabetic(t) ==
  \/ IsLower(t) \/ IsUpper(t)
  \/ (t >= 192 /\ t <= 255 /\ t # 215 /\ t # 247)
  \/ (t >= 19968 /\ t <= 40959)
\* regex \w
IsWordChar(t) == IsAlphabetic(t) \/ IsDigit(t) \/ t = 95
ToLowerChar(t) == IF IsUpper(t) THEN t + 32 ELSE t

\* UTF-8 width of a token
ByteLen(t) ==
  IF t < 0 THEN 0 - t
  ELSE IF t < 128 THEN 1 ELSE IF t < 2048 THEN 2 ELSE IF t < 65536 THEN 3 ELSE 4
\* characters of a token
CharCount(t) == IF t < 0 THEN 0 - t ELSE 1

\* bytes of the first k tokens
RECURSIVE PrefixBytes(_, _)
PrefixBytes(s, k) == IF k = 0 THEN 0 ELSE ByteLen(s[k]) + PrefixBytes(s, k - 1)

\* String::len()
BLen(s) == PrefixBytes(s, Len(s))

\* a \o b as text: runs that meet are one run
Cat(a, b) ==
  IF a # <<>> /\ b # <<>> /\ IsRun(Last(a)) /\ IsRun(Head(b))
    THEN SubSeq(a, 1, Len(a) - 1) \o <<Last(a) + Head(b)>> \o Tail(b)
    ELSE a \o b

\* str::trim
Trim(s) ==
  IF \A i \in DOMAIN s : IsWs(s[i]) THEN <<>>
  ELSE LET a == CHOOSE i \in DOMAIN s : ~IsWs(s[i]) /\ \A j \in 1..(i-1) : IsWs(s[j])
           b == CHOOSE i \in DOMAIN s : ~IsWs(s[i]) /\ \A j \in (i+1)..Len(s) : IsWs(s[j])
       IN  SubSeq(s, a, b)

\* p is a literal without runs
MatchAt(s, p, i) == i >= 1 /\ i + Len(p) - 1 <= Len(s) /\ SubSeq(s, i, i + Len(p) - 1) = p
Contains(s, p)   == \E i \in 1..(Len(s) - Len(p) + 1) : MatchAt(s, p, i)
EndsWith(s, p)   == Len(p) <= Len(s) /\ SubSeq(s, Len(s) - Len(p) + 1, Len(s)) = p
\* str::starts_with; p may end in a run that s continues
StartsWith(s, p) ==
  \/ p = <<>>
  \/ /\ Len(p) <= Len(s)
     /\ SubSeq(s, 1, Len(p) - 1) = SubSeq(p, 1, Len(p) - 1)
     /\ \/ s[Len(p)] = Last(p)
        \/ IsRun(Last(p)) /\ IsRun(s[Len(p)]) /\ s[Len(p)] <= Last(p)

\* str::replace(pat, rep): leftmost, non-overlapping
RECURSIVE ReplaceAll(_, _, _)
ReplaceAll(s, pat, rep) ==
  IF ~Contains(s, pat) THEN s
  ELSE LET i == CHOOSE i \in 1..(Len(s) - Len(pat) + 1) :
                  MatchAt(s, pat, i) /\ \A j \in 1..(i-1) : ~MatchAt(s, pat, j)
       IN  SubSeq(s, 1, i-1) \o rep \o ReplaceAll(SubSeq(s, i + Len(pat), Len(s)), pat, rep)

Terminals == {46, 33, 63}     \* . ! ?
\* a test that would find no sentence complete
EndsTerminal_never(s) == FALSE

\* ends_with('.') || ends_with('!') || ends_with('?')
EndsTerminal(s) == s # <<>> /\ Last(s) \in Terminals

\* the tokens wholly inside the first n bytes of s
TokensWithin(s, n) ==
  LET K == {k \in 0..Len(s) : PrefixBytes(s, k) <= n}
  IN  CHOOSE k \in K : \A m \in K : m <= k
\* s.is_char_boundary(n), 0 <= n <= s.len(): byte n ends a token or lies in a run
IsCharBoundary(s, n) ==
  LET k == TokensWithin(s, n)
  IN  PrefixBytes(s, k) = n \/ (k < Len(s) /\ IsRun(s[k + 1]))
\* &s[..n] and &s[n..] for a boundary n
SliceTo(s, n) ==
  LET k == TokensWithin(s, n)
  IN  IF PrefixBytes(s, k) = n THEN SubSeq(s, 1, k)
      ELSE SubSeq(s, 1, k) \o Run(n - PrefixBytes(s, k))
SliceFrom(s, n) ==
  LET k == TokensWithin(s, n)
  IN  IF PrefixBytes(s, k) = n THEN SubSeq(s, k + 1, Len(s))
      ELSE Run(PrefixBytes(s, k + 1) - n) \o SubSeq(s, k + 2, Len(s))

\* text with its whitespace removed
NoWs(s) == SelectSeq(s, LAMBDA t : ~IsWs(t))

\* the k-th smallest member of a set of numbers
Kth(S, k) == CHOOSE x \in S : Cardinality({y \in S : y <= x}) = k


----------------------------------------------------------------------------
(* Regular-expression rewriting (regex crate: leftmost match, greedy,      *)
(* non-overlapping replace_all)                                            *)

\* \b between s[k] and s[k+1]; k = 0 is the start, k = Len(s) the end
WordAt(s, k) == k >= 1 /\ k <= Len(s) /\ IsWordChar(s[k])
Boundary(s, k) == WordAt(s, k) # WordAt(s, k + 1)

\* length of the run matched by \s* at i
WsRun(s, i) ==
  IF i > Len(s) \/ ~IsWs(s[i]) THEN 0
  ELSE LET e == CHOOSE j \in i..Len(s) :
                  /\ \A k \in i..j : IsWs(s[k])
                  /\ (j = Len(s) \/ ~IsWs(s[j+1]))
       IN  e - i + 1

YearPrefixes == {<<49, 57>>, <<50, 48>>}   \* "19"  "20"
\* (\b(19|20)\d{2}) at i
YearAt(s, i) ==
  /\ i >= 1 /\ i + 3 <= Len(s)
  /\ SubSeq(s, i, i + 1) \in YearPrefixes
  /\ IsDigit(s[i+2]) /\ IsDigit(s[i+3])
  /\ Boundary(s, i - 1)

\* first alternative of (w1|w2|...) that matches at i and is followed by \b
AltAt(s, i, words) ==
  LET ok == {k \in 1..Len(words) : MatchAt(s, words[k], i)
                                   /\ Boundary(s, i + Len(words[k]) - 1)}
  IN  IF ok = {} THEN <<>> ELSE words[CHOOSE k \in ok : \A m \in ok : k <= m]

\* (?i)pat at i
MatchAtNoCase(s, p, i) ==
  /\ i + Len(p) - 1 <= Len(s)
  /\ \A k \in 1..Len(p) : ToLowerChar(s[i + k - 1]) = p[k]

Str_space   == <<32>>   \* " "
Str_arrow   == <<8594>>   \* "\u{2192}"
Str_arrow_to == <<32, 8594, 116, 111>>   \* " \u{2192}to"
Str_to      == <<116, 111>>   \* "to"
Str_from    == <<102, 114, 111, 109>>   \* "from"
Str_and     == <<97, 110, 100>>   \* "and"
Str_between == <<98, 101, 116, 119, 101, 101, 110>>   \* "between"
Connectors  == << <<117, 110, 116, 105, 108>>, <<116, 111>>,   \* "until"  "to"
                  <<116, 104, 114, 111, 117, 103, 104>> >>   \* "through"
YearPreps   == << <<105, 110>>, <<97, 116>>, <<111, 110>>, <<98, 121>>,   \* "in"  "at"  "on"  "by"
                  <<119, 105, 116, 104>> >>   \* "with"

\* Length of the match of a rule at position i of s; 0 when it does not match
RuleLen(rule, s, i) ==
  CASE rule.kind = "year_range" ->              \* (\b(19|20)\d{2})\s+to\b
         IF YearAt(s, i) /\ WsRun(s, i + 4) > 0
            /\ MatchAt(s, Str_to, i + 4 + WsRun(s, i + 4))
            /\ Boundary(s, i + 5 + WsRun(s, i + 4))
         THEN 6 + WsRun(s, i + 4) ELSE 0
    [] rule.kind = "connected_year" ->          \* (\b(19|20)\d{2})to\b
         IF YearAt(s, i) /\ MatchAt(s, Str_to, i + 4) /\ Boundary(s, i + 5)
         THEN 6 ELSE 0
    [] rule.kind = "from_year" ->  \* from\s+(\b(19|20)\d{2})\s+(until|to|through)\b
         IF MatchAt(s, Str_from, i) /\ WsRun(s, i + 4) > 0
         THEN LET y == i + 4 + WsRun(s, i + 4)
                  c == y + 4 + WsRun(s, y + 4)
              IN  IF YearAt(s, y) /\ WsRun(s, y + 4) > 0 /\ AltAt(s, c, Connectors) # <<>>
                  THEN c + Len(AltAt(s, c, Connectors)) - i ELSE 0
         ELSE 0
    [] rule.kind = "between_years" -> \* between\s+(\b(19|20)\d{2})\s+and\s+(\b(19|20)\d{2})\b
         IF MatchAt(s, Str_between, i) /\ WsRun(s, i + 7) > 0
         THEN LET y1 == i + 7 + WsRun(s, i + 7)
                  a  == y1 + 4 + WsRun(s, y1 + 4)
                  y2 == a + 3 + WsRun(s, a + 3)
              IN  IF /\ YearAt(s, y1) /\ WsRun(s, y1 + 4) > 0
                     /\ MatchAt(s, Str_and, a) /\ WsRun(s, a + 3) > 0
                     /\ YearAt(s, y2) /\ Boundary(s, y2 + 3)
                  THEN y2 + 4 - i ELSE 0
         ELSE 0
    [] rule.kind = "year_prep" ->               \* (\b(19|20)\d{2})\s+(in|at|on|by|with)\b
         IF YearAt(s, i) /\ WsRun(s, i + 4) > 0
            /\ AltAt(s, i + 4 + WsRun(s, i + 4), YearPreps) # <<>>
         THEN 4 + WsRun(s, i + 4) + Len(AltAt(s, i + 4 + WsRun(s, i + 4), YearPreps))
         ELSE 0
    [] rule.kind = "fragment" ->                \* (?i)<pat>\s+
         IF MatchAtNoCase(s, rule.pat, i) /\ WsRun(s, i + Len(rule.pat)) > 0
         THEN Len(rule.pat) + WsRun(s, i + Len(rule.pat)) ELSE 0
    [] rule.kind = "word" ->                    \* \b<pat>\b
         IF MatchAt(s, rule.pat, i) /\ Boundary(s, i - 1)
            /\ Boundary(s, i + Len(rule.pat) - 1)
         THEN Len(rule.pat) ELSE 0
    [] rule.kind = "past_tense" ->              \* \b([a-z]+)(r)\b
         IF IsLower(s[i]) /\ Boundary(s, i - 1)
         THEN LET e == CHOOSE j \in i..Len(s) :
                         /\ \A k \in i..j : IsLower(s[k])
                         /\ (j = Len(s) \/ ~IsLower(s[j+1]))
              IN  IF e > i /\ s[e] = 114 /\ Boundary(s, e) THEN e - i + 1 ELSE 0   \* "r"
         ELSE 0

\* The replacement for the match of length n of a rule at position i
RuleRep(rule, s, i, n) ==
  CASE rule.kind = "year_range"     -> SubSeq(s, i, i + 3) \o Str_arrow_to   \* "${1} ->to"
    [] rule.kind = "connected_year" -> SubSeq(s, i, i + 3) \o Str_arrow_to
    [] rule.kind = "from_year" ->                                           \* "from ${1}->${3}"
         LET y == i + 4 + WsRun(s, i + 4)
             c == y + 4 + WsRun(s, y + 4)
         IN  Str_from \o Str_space \o SubSeq(s, y, y + 3) \o Str_arrow \o SubSeq(s, c, i + n - 1)
    [] rule.kind = "between_years" ->                                 \* "between ${1} ->and-> ${3}"
         LET y1 == i + 7 + WsRun(s, i + 7)
         IN  Str_between \o Str_space \o SubSeq(s, y1, y1 + 3) \o Str_space \o Str_arrow \o Str_and
               \o Str_arrow \o Str_space \o SubSeq(s, i + n - 4, i + n - 1)
    [] rule.kind = "year_prep" ->                                           \* "${1} ->${3}"
         SubSeq(s, i, i + 3) \o Str_space \o Str_arrow
           \o SubSeq(s, i + 4 + WsRun(s, i + 4), i + n - 1)
    [] rule.kind = "fragment" -> rule.rep
    [] rule.kind = "word"     -> rule.rep
    [] rule.kind = "past_tense" ->
         \* stem.len() >= 2 && stem.len() <= 4 : stem + o-acute, else unchanged
         IF BLen(SubSeq(s, i, i + n - 2)) >= 2 /\ BLen(SubSeq(s, i, i + n - 2)) <= 4
           THEN SubSeq(s, i, i + n - 2) \o <<243>>   \* "\u{00F3}"
         ELSE SubSeq(s, i, i + n - 1)

\* Regex::replace_all on s from position from on. ReplaceFrom is given the
\* leftmost match at or after from, Len(s) + 1 when there is none.
RECURSIVE RegexReplace(_, _, _)
ReplaceFrom(rule, s, from, i) ==
  IF i > Len(s) THEN SubSeq(s, from, Len(s))
  ELSE SubSeq(s, from, i - 1) \o RuleRep(rule, s, i, RuleLen(rule, s, i))
         \o RegexReplace(rule, s, i + RuleLen(rule, s, i))
RegexReplace(rule, s, from) ==
  ReplaceFrom(rule, s, from,
              Kth({i \in from..Len(s) : RuleLen(rule, s, i) > 0} \cup {Len(s) + 1}, 1))

\* apply literal replacements <<from, to>> one after the other
RECURSIVE ApplyLiterals(_, _)
ApplyLiterals(s, pairs) ==
  IF pairs = <<>> THEN s
  ELSE ApplyLiterals(ReplaceAll(s, Head(pairs)[1], Head(pairs)[2]), Tail(pairs))

----------------------------------------------------------------------------
(* Text rewriting around segmentation and synthesis (koko/src/main.rs)     *)

WarYears == << <<49, 57, 51, 57>>, <<49, 57, 52, 48>>, <<49, 57, 52, 49>>,   \* "1939"  "1940"  "1941"
               <<49, 57, 52, 50>>, <<49, 57, 52, 53>> >>   \* "1942"  "1945"

Str_toIt    == <<32, 116, 111, 32, 73, 116, 32>>   \* " to It "
Str_toit    == <<32, 116, 111, 32, 105, 116, 32>>   \* " to it "

\* common_fragments of preprocess_text_for_segmentation
CommonFragments == <<
  [kind |-> "fragment", pat |-> <<115, 117, 99, 104, 32, 97, 115>>,   \* "such as"
     rep |-> <<115, 117, 99, 104, 8594, 97, 115, 32>>],   \* "such\u{2192}as "
  [kind |-> "fragment", pat |-> <<97, 115, 32, 119, 101, 108, 108, 32, 97, 115>>,   \* "as well as"
     rep |-> <<97, 115, 8594, 119, 101, 108, 108, 8594, 97, 115, 32>>],   \* "as\u{2192}well\u{2192}as "
  [kind |-> "fragment", pat |-> <<97, 99, 99, 111, 114, 100, 105, 110, 103, 32, 116, 111>>,   \* "according to"
     rep |-> <<97, 99, 99, 111, 114, 100, 105, 110, 103, 8594, 116, 111, 32>>],   \* "according\u{2192}to "
  [kind |-> "fragment", pat |-> <<100, 117, 101, 32, 116, 111>>,   \* "due to"
     rep |-> <<100, 117, 101, 8594, 116, 111, 32>>],   \* "due\u{2192}to "
  [kind |-> "fragment", pat |-> <<117, 112, 32, 116, 111>>,   \* "up to"
     rep |-> <<117, 112, 8594, 116, 111, 32>>],   \* "up\u{2192}to "
  [kind |-> "fragment", pat |-> <<105, 110, 32, 111, 114, 100, 101, 114, 32, 116, 111>>,   \* "in order to"
     rep |-> <<105, 110, 8594, 111, 114, 100, 101, 114, 8594, 116, 111, 32>>] >>   \* "in\u{2192}order\u{2192}to "

\* "from {year} to" -> "from {year}->to" for the five listed years
FromWarYearFixes ==
  [k \in 1..Len(WarYears) |->
     << Str_from \o Str_space \o WarYears[k] \o Str_space \o Str_to,
        Str_from \o Str_space \o WarYears[k] \o Str_arrow \o Str_to >>]

\* one replacement step of preprocess_text_for_segmentation: replace_all of
\* the rule; after a match of the from-year rule the listed years are bound
RuleStep(rule, s, r) ==
  IF rule.kind = "from_year" /\ r # s THEN ApplyLiterals(r, FromWarYearFixes) ELSE r

\* the steps one after the other
RECURSIVE ApplyRules(_, _)
ApplyRules(s, rules) ==
  IF rules = <<>> THEN s
  ELSE ApplyRules(RuleStep(Head(rules), s, RegexReplace(Head(rules), s, 1)), Tail(rules))

\* the regexes of preprocess_text_for_segmentation in the order applied
PreprocessRules ==
  << [kind |-> "year_range"], [kind |-> "connected_year"], [kind |-> "from_year"],
     [kind |-> "between_years"], [kind |-> "year_prep"] >> \o CommonFragments

preprocess_text_for_segmentation(text) == ApplyRules(text, PreprocessRules)

\* Regex \b(19|20)\d{2}\s*$
EndsWithYear(s) ==
  \E i \in 1..Len(s) : YearAt(s, i) /\ \A k \in (i + 4)..Len(s) : IsWs(s[k])

StartsWithAny(s, words) == \E w \in words : StartsWith(s, w)
EndsWithAny(s, words)   == \E w \in words : EndsWith(s, w)

ConnectorStarts == { <<116, 111>>, <<84, 111>>, <<117, 110, 116, 105, 108>>,   \* "to"  "To"  "until"
                     <<85, 110, 116, 105, 108>>, <<116, 104, 114, 111, 117, 103, 104>>,   \* "Until"  "through"
                     <<84, 104, 114, 111, 117, 103, 104>> }   \* "Through"
ItStarts        == { <<73, 116>>, <<105, 116>> }   \* "It"  "it"
WarYearEnds     == {WarYears[k] : k \in 1..Len(WarYears)}
                     \cup {WarYears[k] \o Str_space : k \in 1..Len(WarYears)}
PrepositionEnds == { <<105, 110>>, <<111, 110>>, <<97, 116>>, <<98, 121>>,   \* "in"  "on"  "at"  "by"
                     <<119, 105, 116, 104>>, <<102, 111, 114>>, <<102, 114, 111, 109>> }   \* "with"  "for"  "from"

\* postprocess_sentences, the while loop from index i on. `next` is bound
\* once per iteration, each of the three merge tests appends it and steps i.
RECURSIVE PostprocessFrom(_, _)
PostprocessFrom(sentences, i) ==
  IF i > Len(sentences) THEN <<>>
  ELSE
    LET hasNext == i < Len(sentences)
        next    == IF hasNext THEN sentences[i + 1] ELSE <<>>
        c0 == ReplaceAll(sentences[i], Str_arrow, Str_space)
        m1 == hasNext /\ EndsWithYear(c0)
                /\ (StartsWithAny(Trim(next), ConnectorStarts) \/ StartsWithAny(Trim(next), ItStarts))
        c1 == IF m1 THEN c0 \o Str_space \o next ELSE c0
        m2 == hasNext /\ EndsWithAny(c1, WarYearEnds)
        c2 == IF m2 THEN c1 \o Str_space \o next ELSE c1
        m3 == hasNext /\ EndsWithAny(Trim(c2), PrepositionEnds) /\ Trim(next) # <<>>
        c3 == IF m3 THEN c2 \o Str_space \o next ELSE c2
        c4 == IF Contains(c3, Str_toIt) \/ Contains(c3, Str_toit)
                THEN ReplaceAll(c3, Str_toIt, Str_toit) ELSE c3
        skip == (IF m1 THEN 1 ELSE 0) + (IF m2 THEN 1 ELSE 0) + (IF m3 THEN 1 ELSE 0)
    IN  (IF Trim(c4) # <<>> THEN <<c4>> ELSE <<>>) \o PostprocessFrom(sentences, i + 1 + skip)

postprocess_sentences(sentences) == PostprocessFrom(sentences, 1)

\* buffer.replace("1939to", "1939 to")... before segmentation
BufferYearFixes ==
  [k \in 1..Len(WarYears) |->
     << WarYears[k] \o Str_to, WarYears[k] \o Str_space \o Str_to >>]

\* "{year} to It" -> "{year} to it" on a unit's text
UnitYearFixes ==
  [k \in 1..Len(WarYears) |->
     << WarYears[k] \o <<32, 116, 111, 32, 73, 116>>,   \* " to It"
        WarYears[k] \o <<32, 116, 111, 32, 105, 116>> >>]   \* " to it"

\* restore_spanish_accents: the replacements array, in order
AccentReplacements == <<
  << <<100, 117, 114>>, <<100, 117, 114, 243>> >>,   \* "dur"  "dur\u{00F3}"
  << <<68, 117, 114>>, <<68, 117, 114, 243>> >>,   \* "Dur"  "Dur\u{00F3}"
  << <<99, 111, 109, 101, 110, 122>>, <<99, 111, 109, 101, 110, 122, 243>> >>,   \* "comenz"  "comenz\u{00F3}"
  << <<116, 101, 114, 109, 105, 110>>, <<116, 101, 114, 109, 105, 110, 243>> >>,   \* "termin"  "termin\u{00F3}"
  << <<108, 108, 97, 109>>, <<108, 108, 97, 109, 243>> >>,   \* "llam"  "llam\u{00F3}"
  << <<104, 97, 98, 108>>, <<104, 97, 98, 108, 243>> >>,   \* "habl"  "habl\u{00F3}"
  << <<101, 115, 99, 114, 105, 98>>, <<101, 115, 99, 114, 105, 98, 105, 243>> >>,   \* "escrib"  "escribi\u{00F3}"
  << <<114, 101, 99, 105, 98>>, <<114, 101, 99, 105, 98, 105, 243>> >>,   \* "recib"  "recibi\u{00F3}"
  << <<100, 101, 99, 108, 97, 114>>, <<100, 101, 99, 108, 97, 114, 243>> >>,   \* "declar"  "declar\u{00F3}"
  << <<118, 105, 97, 106>>, <<118, 105, 97, 106, 243>> >>,   \* "viaj"  "viaj\u{00F3}"
  << <<101, 110, 116, 114>>, <<101, 110, 116, 114, 243>> >>,   \* "entr"  "entr\u{00F3}"
  << <<112, 114, 101, 103, 117, 110, 116>>, <<112, 114, 101, 103, 117, 110, 116, 243>> >>,   \* "pregunt"  "pregunt\u{00F3}"
  << <<99, 97, 109, 98, 105>>, <<99, 97, 109, 98, 105, 243>> >>,   \* "cambi"  "cambi\u{00F3}"
  << <<100, 101, 106>>, <<100, 101, 106, 243>> >>,   \* "dej"  "dej\u{00F3}"
  << <<101, 120, 112, 108, 105, 99>>, <<101, 120, 112, 108, 105, 99, 243>> >>,   \* "explic"  "explic\u{00F3}"
  << <<112, 101, 110, 115>>, <<112, 101, 110, 115, 243>> >>,   \* "pens"  "pens\u{00F3}"
  << <<112, 111, 108, 105, 116, 105, 99, 97>>, <<112, 111, 108, 237, 116, 105, 99, 97>> >>,   \* "politica"  "pol\u{00ED}tica"
  << <<112, 111, 108, 116, 105, 99, 97>>, <<112, 111, 108, 237, 116, 105, 99, 97>> >>,   \* "poltica"  "pol\u{00ED}tica"
  << <<80, 111, 108, 105, 116, 105, 99, 97>>, <<80, 111, 108, 237, 116, 105, 99, 97>> >>,   \* "Politica"  "Pol\u{00ED}tica"
  << <<80, 111, 108, 116, 105, 99, 97>>, <<80, 111, 108, 237, 116, 105, 99, 97>> >>,   \* "Poltica"  "Pol\u{00ED}tica"
  << <<101, 99, 111, 110, 111, 109, 105, 97>>, <<101, 99, 111, 110, 111, 109, 237, 97>> >>,   \* "economia"  "econom\u{00ED}a"
  << <<69, 99, 111, 110, 111, 109, 105, 97>>, <<69, 99, 111, 110, 111, 109, 237, 97>> >>,   \* "Economia"  "Econom\u{00ED}a"
  << <<99, 97, 116, 101, 103, 111, 114, 105, 97>>, <<99, 97, 116, 101, 103, 111, 114, 237, 97>> >>,   \* "categoria"  "categor\u{00ED}a"
  << <<116, 101, 99, 110, 111, 108, 111, 103, 105, 97>>, <<116, 101, 99, 110, 111, 108, 111, 103, 237, 97>> >>,   \* "tecnologia"  "tecnolog\u{00ED}a"
  << <<102, 111, 116, 111, 103, 114, 97, 102, 105, 97>>, <<102, 111, 116, 111, 103, 114, 97, 102, 237, 97>> >>,   \* "fotografia"  "fotograf\u{00ED}a"
  << <<103, 101, 111, 103, 114, 97, 102, 105, 97>>, <<103, 101, 111, 103, 114, 97, 102, 237, 97>> >>,   \* "geografia"  "geograf\u{00ED}a"
  << <<102, 105, 108, 111, 115, 111, 102, 105, 97>>, <<102, 105, 108, 111, 115, 111, 102, 237, 97>> >>,   \* "filosofia"  "filosof\u{00ED}a"
  << <<112, 115, 105, 99, 111, 108, 111, 103, 105, 97>>, <<112, 115, 105, 99, 111, 108, 111, 103, 237, 97>> >>,   \* "psicologia"  "psicolog\u{00ED}a"
  << <<115, 111, 99, 105, 111, 108, 111, 103, 105, 97>>, <<115, 111, 99, 105, 111, 108, 111, 103, 237, 97>> >>,   \* "sociologia"  "sociolog\u{00ED}a"
  << <<98, 105, 111, 108, 111, 103, 105, 97>>, <<98, 105, 111, 108, 111, 103, 237, 97>> >>,   \* "biologia"  "biolog\u{00ED}a"
  << <<101, 110, 101, 114, 103, 105, 97>>, <<101, 110, 101, 114, 103, 237, 97>> >>,   \* "energia"  "energ\u{00ED}a"
  << <<103, 97, 114, 97, 110, 116, 105, 97>>, <<103, 97, 114, 97, 110, 116, 237, 97>> >>,   \* "garantia"  "garant\u{00ED}a"
  << <<99, 111, 109, 112, 97, 110, 105, 97>>, <<99, 111, 109, 112, 97, 241, 237, 97>> >>,   \* "compania"  "compa\u{00F1}\u{00ED}a"
  << <<116, 101, 111, 114, 105, 97>>, <<116, 101, 111, 114, 237, 97>> >>,   \* "teoria"  "teor\u{00ED}a"
  << <<109, 101, 108, 111, 100, 105, 97>>, <<109, 101, 108, 111, 100, 237, 97>> >>,   \* "melodia"  "melod\u{00ED}a"
  << <<97, 117, 116, 111, 110, 111, 109, 105, 97>>, <<97, 117, 116, 111, 110, 111, 109, 237, 97>> >>,   \* "autonomia"  "autonom\u{00ED}a"
  << <<105, 100, 101, 111, 108, 111, 103, 105, 97>>, <<105, 100, 101, 111, 108, 111, 103, 237, 97>> >>,   \* "ideologia"  "ideolog\u{00ED}a"
  << <<97, 113, 117>>, <<97, 113, 117, 237>> >>,   \* "aqu"  "aqu\u{00ED}"
  << <<65, 113, 117>>, <<65, 113, 117, 237>> >>,   \* "Aqu"  "Aqu\u{00ED}"
  << <<112, 97, 105, 115>>, <<112, 97, 237, 115>> >>,   \* "pais"  "pa\u{00ED}s"
  << <<99, 97, 108, 105, 102, 105, 99, 97, 99, 105, 111, 110>>, <<99, 97, 108, 105, 102, 105, 99, 97, 99, 105, 243, 110>> >>,   \* "calificacion"  "calificaci\u{00F3}n"
  << <<101, 112, 111, 99, 97>>, <<233, 112, 111, 99, 97>> >>,   \* "epoca"  "\u{00E9}poca"
  << <<116, 101, 108, 101, 102, 111, 110, 111>>, <<116, 101, 108, 233, 102, 111, 110, 111>> >>,   \* "telefono"  "tel\u{00E9}fono"
  << <<116, 101, 108, 101, 102, 111, 110, 111, 115>>, <<116, 101, 108, 233, 102, 111, 110, 111, 115>> >>,   \* "telefonos"  "tel\u{00E9}fonos"
  << <<109, 101, 116, 111, 100, 111>>, <<109, 233, 116, 111, 100, 111>> >>,   \* "metodo"  "m\u{00E9}todo"
  << <<109, 101, 116, 111, 100, 111, 115>>, <<109, 233, 116, 111, 100, 111, 115>> >>,   \* "metodos"  "m\u{00E9}todos"
  << <<109, 101, 100, 105, 99, 111>>, <<109, 233, 100, 105, 99, 111>> >>,   \* "medico"  "m\u{00E9}dico"
  << <<109, 101, 100, 105, 99, 97>>, <<109, 233, 100, 105, 99, 97>> >>,   \* "medica"  "m\u{00E9}dica"
  << <<101, 108, 101, 99, 116, 114, 105, 99, 111>>, <<101, 108, 233, 99, 116, 114, 105, 99, 111>> >>,   \* "electrico"  "el\u{00E9}ctrico"
  << <<101, 108, 101, 99, 116, 114, 105, 99, 97>>, <<101, 108, 233, 99, 116, 114, 105, 99, 97>> >>,   \* "electrica"  "el\u{00E9}ctrica"
  << <<101, 108, 101, 99, 116, 114, 111, 110, 105, 99, 111>>, <<101, 108, 101, 99, 116, 114, 243, 110, 105, 99, 111>> >>,   \* "electronico"  "electr\u{00F3}nico"
  << <<101, 108, 101, 99, 116, 114, 111, 110, 105, 99, 97>>, <<101, 108, 101, 99, 116, 114, 243, 110, 105, 99, 97>> >>,   \* "electronica"  "electr\u{00F3}nica"
  << <<112, 114, 97, 99, 116, 105, 99, 111>>, <<112, 114, 225, 99, 116, 105, 99, 111>> >>,   \* "practico"  "pr\u{00E1}ctico"
  << <<112, 114, 97, 99, 116, 105, 99, 97>>, <<112, 114, 225, 99, 116, 105, 99, 97>> >>,   \* "practica"  "pr\u{00E1}ctica"
  << <<103, 114, 97, 102, 105, 99, 111>>, <<103, 114, 225, 102, 105, 99, 111>> >>,   \* "grafico"  "gr\u{00E1}fico"
  << <<103, 114, 97, 102, 105, 99, 97>>, <<103, 114, 225, 102, 105, 99, 97>> >>,   \* "grafica"  "gr\u{00E1}fica"
  << <<109, 97, 116, 101, 109, 97, 116, 105, 99, 97>>, <<109, 97, 116, 101, 109, 225, 116, 105, 99, 97>> >>,   \* "matematica"  "matem\u{00E1}tica"
  << <<109, 97, 116, 101, 109, 97, 116, 105, 99, 97, 115>>, <<109, 97, 116, 101, 109, 225, 116, 105, 99, 97, 115>> >>,   \* "matematicas"  "matem\u{00E1}ticas"
  << <<116, 114, 97, 102, 105, 99, 111>>, <<116, 114, 225, 102, 105, 99, 111>> >>,   \* "trafico"  "tr\u{00E1}fico"
  << <<112, 101, 114, 111, 100, 111>>, <<112, 101, 114, 237, 111, 100, 111>> >>,   \* "perodo"  "per\u{00ED}odo"
  << <<112, 101, 114, 105, 111, 100, 105, 99, 111>>, <<112, 101, 114, 105, 243, 100, 105, 99, 111>> >>,   \* "periodico"  "peri\u{00F3}dico"
  << <<112, 114, 111, 112, 111, 115, 105, 116, 111>>, <<112, 114, 111, 112, 243, 115, 105, 116, 111>> >>,   \* "proposito"  "prop\u{00F3}sito"
  << <<112, 114, 111, 112, 111, 115, 105, 116, 111, 115>>, <<112, 114, 111, 112, 243, 115, 105, 116, 111, 115>> >>,   \* "propositos"  "prop\u{00F3}sitos"
  << <<101, 99, 111, 110, 111, 109, 105, 99, 111>>, <<101, 99, 111, 110, 243, 109, 105, 99, 111>> >>,   \* "economico"  "econ\u{00F3}mico"
  << <<101, 99, 111, 110, 111, 109, 105, 99, 97>>, <<101, 99, 111, 110, 243, 109, 105, 99, 97>> >>,   \* "economica"  "econ\u{00F3}mica"
  << <<104, 105, 115, 116, 111, 114, 105, 99, 111>>, <<104, 105, 115, 116, 243, 114, 105, 99, 111>> >>,   \* "historico"  "hist\u{00F3}rico"
  << <<104, 105, 115, 116, 111, 114, 105, 99, 97>>, <<104, 105, 115, 116, 243, 114, 105, 99, 97>> >>,   \* "historica"  "hist\u{00F3}rica"
  << <<117, 108, 116, 105, 109, 111, 115>>, <<250, 108, 116, 105, 109, 111, 115>> >>,   \* "ultimos"  "\u{00FA}ltimos"
  << <<117, 108, 116, 105, 109, 111>>, <<250, 108, 116, 105, 109, 111>> >>,   \* "ultimo"  "\u{00FA}ltimo"
  << <<101, 108, 46>>, <<233, 108, 46>> >>,   \* "el."  "\u{00E9}l."
  << <<101, 108, 44>>, <<233, 108, 44>> >>,   \* "el,"  "\u{00E9}l,"
  << <<101, 108, 63>>, <<233, 108, 63>> >>,   \* "el?"  "\u{00E9}l?"
  << <<101, 108, 33>>, <<233, 108, 33>> >>,   \* "el!"  "\u{00E9}l!"
  << <<32, 101, 108, 32>>, <<32, 233, 108, 32>> >>,   \* " el "  " \u{00E9}l "
  << <<109, 97, 115, 32>>, <<109, 225, 115, 32>> >>,   \* "mas "  "m\u{00E1}s "
  << <<101, 115, 116, 97, 32>>, <<101, 115, 116, 225, 32>> >>,   \* "esta "  "est\u{00E1} "
  << <<101, 115, 116, 101, 32>>, <<101, 115, 116, 233, 32>> >>,   \* "este "  "est\u{00E9} "
  << <<115, 105, 32>>, <<115, 237, 32>> >>,   \* "si "  "s\u{00ED} "
  << <<116, 117, 32>>, <<116, 250, 32>> >>,   \* "tu "  "t\u{00FA} "
  << <<109, 105, 32>>, <<109, 237, 32>> >>,   \* "mi "  "m\u{00ED} "
  << <<105, 110, 110, 111, 118, 97, 99, 105, 111, 110>>, <<105, 110, 110, 111, 118, 97, 99, 105, 243, 110>> >>,   \* "innovacion"  "innovaci\u{00F3}n"
  << <<105, 110, 102, 111, 114, 109, 97, 99, 105, 111, 110>>, <<105, 110, 102, 111, 114, 109, 97, 99, 105, 243, 110>> >>,   \* "informacion"  "informaci\u{00F3}n"
  << <<99, 111, 109, 117, 110, 105, 99, 97, 99, 105, 111, 110>>, <<99, 111, 109, 117, 110, 105, 99, 97, 99, 105, 243, 110>> >>,   \* "comunicacion"  "comunicaci\u{00F3}n"
  << <<101, 100, 117, 99, 97, 99, 105, 111, 110>>, <<101, 100, 117, 99, 97, 99, 105, 243, 110>> >>,   \* "educacion"  "educaci\u{00F3}n"
  << <<105, 110, 118, 101, 115, 116, 105, 103, 97, 99, 105, 111, 110>>, <<105, 110, 118, 101, 115, 116, 105, 103, 97, 99, 105, 243, 110>> >>,   \* "investigacion"  "investigaci\u{00F3}n"
  << <<101, 120, 112, 108, 105, 99, 97, 99, 105, 111, 110>>, <<101, 120, 112, 108, 105, 99, 97, 99, 105, 243, 110>> >>,   \* "explicacion"  "explicaci\u{00F3}n"
  << <<112, 114, 101, 115, 101, 110, 116, 97, 99, 105, 111, 110>>, <<112, 114, 101, 115, 101, 110, 116, 97, 99, 105, 243, 110>> >>,   \* "presentacion"  "presentaci\u{00F3}n"
  << <<100, 101, 99, 111, 114, 97, 99, 105, 111, 110>>, <<100, 101, 99, 111, 114, 97, 99, 105, 243, 110>> >>,   \* "decoracion"  "decoraci\u{00F3}n"
  << <<115, 105, 116, 117, 97, 99, 105, 111, 110>>, <<115, 105, 116, 117, 97, 99, 105, 243, 110>> >>,   \* "situacion"  "situaci\u{00F3}n"
  << <<103, 101, 110, 101, 114, 97, 99, 105, 111, 110>>, <<103, 101, 110, 101, 114, 97, 99, 105, 243, 110>> >>,   \* "generacion"  "generaci\u{00F3}n"
  << <<112, 97, 114, 116, 105, 99, 105, 112, 97, 99, 105, 111, 110>>, <<112, 97, 114, 116, 105, 99, 105, 112, 97, 99, 105, 243, 110>> >>,   \* "participacion"  "participaci\u{00F3}n"
  << <<112, 111, 98, 108, 97, 99, 105, 111, 110>>, <<112, 111, 98, 108, 97, 99, 105, 243, 110>> >>,   \* "poblacion"  "poblaci\u{00F3}n"
  << <<97, 112, 108, 105, 99, 97, 99, 105, 111, 110>>, <<97, 112, 108, 105, 99, 97, 99, 105, 243, 110>> >>,   \* "aplicacion"  "aplicaci\u{00F3}n"
  << <<114, 101, 108, 97, 99, 105, 111, 110>>, <<114, 101, 108, 97, 99, 105, 243, 110>> >>,   \* "relacion"  "relaci\u{00F3}n"
  << <<111, 114, 103, 97, 110, 105, 122, 97, 99, 105, 111, 110>>, <<111, 114, 103, 97, 110, 105, 122, 97, 99, 105, 243, 110>> >>,   \* "organizacion"  "organizaci\u{00F3}n"
  << <<99, 101, 108, 101, 98, 114, 97, 99, 105, 111, 110>>, <<99, 101, 108, 101, 98, 114, 97, 99, 105, 243, 110>> >>,   \* "celebracion"  "celebraci\u{00F3}n"
  << <<99, 111, 109, 117, 110, 105, 99, 97, 99, 105, 110>>, <<99, 111, 109, 117, 110, 105, 99, 97, 99, 105, 243, 110>> >>,   \* "comunicacin"  "comunicaci\u{00F3}n"
  << <<99, 111, 110, 115, 116, 114, 117, 99, 99, 105, 111, 110>>, <<99, 111, 110, 115, 116, 114, 117, 99, 99, 105, 243, 110>> >>,   \* "construccion"  "construcci\u{00F3}n"
  << <<101, 118, 111, 108, 117, 99, 105, 111, 110>>, <<101, 118, 111, 108, 117, 99, 105, 243, 110>> >>,   \* "evolucion"  "evoluci\u{00F3}n"
  << <<100, 105, 114, 101, 99, 99, 105, 111, 110>>, <<100, 105, 114, 101, 99, 99, 105, 243, 110>> >>,   \* "direccion"  "direcci\u{00F3}n"
  << <<99, 111, 108, 101, 99, 99, 105, 111, 110>>, <<99, 111, 108, 101, 99, 99, 105, 243, 110>> >>,   \* "coleccion"  "colecci\u{00F3}n"
  << <<105, 100, 101, 110, 116, 105, 102, 105, 99, 97, 99, 105, 111, 110>>, <<105, 100, 101, 110, 116, 105, 102, 105, 99, 97, 99, 105, 243, 110>> >>,   \* "identificacion"  "identificaci\u{00F3}n"
  << <<114, 101, 118, 111, 108, 117, 99, 105, 111, 110>>, <<114, 101, 118, 111, 108, 117, 99, 105, 243, 110>> >>,   \* "revolucion"  "revoluci\u{00F3}n"
  << <<97, 100, 109, 105, 110, 105, 115, 116, 114, 97, 99, 105, 111, 110>>, <<97, 100, 109, 105, 110, 105, 115, 116, 114, 97, 99, 105, 243, 110>> >>,   \* "administracion"  "administraci\u{00F3}n"
  << <<99, 105, 118, 105, 108, 105, 122, 97, 99, 105, 111, 110>>, <<99, 105, 118, 105, 108, 105, 122, 97, 99, 105, 243, 110>> >>,   \* "civilizacion"  "civilizaci\u{00F3}n"
  << <<115, 101, 99, 99, 105, 111, 110>>, <<115, 101, 99, 99, 105, 243, 110>> >>,   \* "seccion"  "secci\u{00F3}n"
  << <<112, 114, 111, 116, 101, 99, 99, 105, 111, 110>>, <<112, 114, 111, 116, 101, 99, 99, 105, 243, 110>> >>,   \* "proteccion"  "protecci\u{00F3}n"
  << <<100, 101, 99, 108, 97, 114, 97, 99, 105, 111, 110>>, <<100, 101, 99, 108, 97, 114, 97, 99, 105, 243, 110>> >>,   \* "declaracion"  "declaraci\u{00F3}n"
  << <<114, 101, 98, 101, 108, 105, 111, 110>>, <<114, 101, 98, 101, 108, 105, 243, 110>> >>,   \* "rebelion"  "rebeli\u{00F3}n"
  << <<99, 114, 101, 97, 99, 105, 111, 110>>, <<99, 114, 101, 97, 99, 105, 243, 110>> >>,   \* "creacion"  "creaci\u{00F3}n"
  << <<99, 114, 101, 97, 99, 105, 110>>, <<99, 114, 101, 97, 99, 105, 243, 110>> >>,   \* "creacin"  "creaci\u{00F3}n"
  << <<99, 111, 109, 112, 97, 110, 237, 97>>, <<99, 111, 109, 112, 97, 241, 237, 97>> >>,   \* "compan\u{00ED}a"  "compa\u{00F1}\u{00ED}a"
  << <<99, 111, 109, 112, 97, 110, 105>>, <<99, 111, 109, 112, 97, 241, 237>> >>,   \* "compani"  "compa\u{00F1}\u{00ED}"
  << <<67, 111, 109, 112, 97, 110, 105, 97>>, <<67, 111, 109, 112, 97, 241, 237, 97>> >>,   \* "Compania"  "Compa\u{00F1}\u{00ED}a"
  << <<67, 111, 109, 112, 97, 97>>, <<67, 111, 109, 112, 97, 241, 237, 97>> >>,   \* "Compaa"  "Compa\u{00F1}\u{00ED}a"
  << <<69, 115, 112, 97, 110, 97>>, <<69, 115, 112, 97, 241, 97>> >>,   \* "Espana"  "Espa\u{00F1}a"
  << <<101, 115, 112, 97, 110, 111, 108>>, <<101, 115, 112, 97, 241, 111, 108>> >>,   \* "espanol"  "espa\u{00F1}ol"
  << <<109, 111, 110, 116, 97, 110, 97>>, <<109, 111, 110, 116, 97, 241, 97>> >>,   \* "montana"  "monta\u{00F1}a"
  << <<109, 97, 110, 97, 110, 97>>, <<109, 97, 241, 97, 110, 97>> >>,   \* "manana"  "ma\u{00F1}ana"
  << <<110, 105, 110, 111>>, <<110, 105, 241, 111>> >>,   \* "nino"  "ni\u{00F1}o"
  << <<110, 105, 110, 97>>, <<110, 105, 241, 97>> >>,   \* "nina"  "ni\u{00F1}a"
  << <<115, 101, 110, 111, 114>>, <<115, 101, 241, 111, 114>> >>,   \* "senor"  "se\u{00F1}or"
  << <<115, 101, 110, 111, 114, 97>>, <<115, 101, 241, 111, 114, 97>> >>,   \* "senora"  "se\u{00F1}ora"
  << <<115, 117, 101, 110, 111>>, <<115, 117, 101, 241, 111>> >>,   \* "sueno"  "sue\u{00F1}o"
  << <<112, 101, 113, 117, 101, 110, 111>>, <<112, 101, 113, 117, 101, 241, 111>> >>,   \* "pequeno"  "peque\u{00F1}o"
  << <<112, 101, 113, 117, 101, 110, 97>>, <<112, 101, 113, 117, 101, 241, 97>> >>,   \* "pequena"  "peque\u{00F1}a"
  << <<108, 105, 110, 103, 117, 105, 115, 116, 105, 99, 97>>, <<108, 105, 110, 103, 252, 237, 115, 116, 105, 99, 97>> >>,   \* "linguistica"  "ling\u{00FC}\u{00ED}stica"
  << <<98, 105, 108, 105, 110, 103, 117, 105, 115, 109, 111>>, <<98, 105, 108, 105, 110, 103, 252, 105, 115, 109, 111>> >>,   \* "bilinguismo"  "biling\u{00FC}ismo"
  << <<112, 105, 110, 103, 117, 105, 110, 111>>, <<112, 105, 110, 103, 252, 105, 110, 111>> >>,   \* "pinguino"  "ping\u{00FC}ino"
  << <<118, 101, 114, 103, 117, 101, 110, 122, 97>>, <<118, 101, 114, 103, 252, 101, 110, 122, 97>> >>,   \* "verguenza"  "verg\u{00FC}enza"
  << <<97, 110, 116, 105, 103, 117, 101, 100, 97, 100>>, <<97, 110, 116, 105, 103, 252, 101, 100, 97, 100>> >>,   \* "antiguedad"  "antig\u{00FC}edad"
  << <<98, 105, 108, 105, 110, 103, 117, 101>>, <<98, 105, 108, 105, 110, 103, 252, 101>> >> >>   \* "bilingue"  "biling\u{00FC}e"

\* the replacements loop of restore_spanish_accents from entry k on. Entries
\* whose `wrong` is not contained in the text leave it alone, so the loop
\* steps from one applicable entry j to the next; an entry with a space is
\* replaced literally, another as \b<wrong>\b
RECURSIVE ApplyAccentReplacements(_, _, _)
AccentStep(fixed, replacements, j) ==
  IF j > Len(replacements) THEN fixed
  ELSE ApplyAccentReplacements(
         (IF Contains(replacements[j][1], Str_space)
            THEN ReplaceAll(fixed, replacements[j][1], replacements[j][2])
          ELSE RegexReplace([kind |-> "word", pat |-> replacements[j][1],
                             rep |-> replacements[j][2]], fixed, 1)),
         replacements, j + 1)
ApplyAccentReplacements(fixed, replacements, k) ==
  AccentStep(fixed, replacements,
             Kth({j \in k..Len(replacements) : Contains(fixed, replacements[j][1])}
                   \cup {Len(replacements) + 1}, 1))

restore_spanish_accents(text) ==
  RegexReplace([kind |-> "past_tense"], ApplyAccentReplacements(text, AccentReplacements, 1), 1)

Str_es == <<"e", "s">>
\* str::starts_with on language codes
CodeStartsWith(code, p) == Len(p) <= Len(code) /\ SubSeq(code, 1, Len(p)) = p

\* a unit text that would be left without its period
WithPeriod_bare(sentence) == sentence

\* The text handed to tts_raw_audio for a unit: period, " to It " and year
\* fixes, accent restoration for Spanish sessions, preprocessing, and the
\* arrows turned back into spaces.
WithPeriod(sentence) == IF EndsTerminal(sentence) THEN sentence ELSE sentence \o <<46>>   \* "."

UnitFixes(text) == ApplyLiterals(ReplaceAll(text, Str_toIt, Str_toit), UnitYearFixes)

RestoreIfSpanish(text, language) ==
  IF CodeStartsWith(language, Str_es) THEN restore_spanish_accents(text) ELSE text

FinalPreprocessed(text) ==
  ReplaceAll(preprocess_text_for_segmentation(text), Str_arrow, Str_space)

----------------------------------------------------------------------------
(* Language detection and voice selection (kokoros/src/tts/phonemizer.rs)  *)

\* LANGUAGE_MAP (phonemizer.rs:16-147)
LANGUAGE_MAP ==
  { << <<"e","n">>, <<"e","n","-","u","s">> >>,
    << <<"e","n","g">>, <<"e","n","-","u","s">> >>,
    << <<"e","n","-","u","s">>, <<"e","n","-","u","s">> >>,
    << <<"e","n","-","g","b">>, <<"e","n","-","g","b">> >>,
    << <<"e","n","-","u","k">>, <<"e","n","-","g","b">> >>,
    << <<"e","n","-","a","u">>, <<"e","n","-","g","b">> >>,
    << <<"e","n","-","c","a">>, <<"e","n","-","u","s">> >>,
    << <<"e","n","-","i","e">>, <<"e","n","-","g","b">> >>,
    << <<"e","n","-","i","n">>, <<"e","n","-","g","b">> >>,
    << <<"e","n","-","n","z">>, <<"e","n","-","g","b">> >>,
    << <<"e","n","-","z","a">>, <<"e","n","-","g","b">> >>,
    << <<"z","h">>, <<"z","h">> >>,
    << <<"z","h","o">>, <<"z","h">> >>,
    << <<"c","h","i">>, <<"z","h">> >>,
    << <<"z","h","-","c","n">>, <<"z","h">> >>,
    << <<"z","h","-","t","w">>, <<"z","h","-","t","w">> >>,
    << <<"z","h","-","h","k">>, <<"z","h","-","y","u","e">> >>,
    << <<"y","u","e">>, <<"z","h","-","y","u","e">> >>,
    << <<"w","u","u">>, <<"z","h">> >>,
    << <<"c","m","n">>, <<"z","h">> >>,
    << <<"j","a">>, <<"j","a">> >>,
    << <<"j","p","n">>, <<"j","a">> >>,
    << <<"k","o">>, <<"k","o">> >>,
    << <<"k","o","r">>, <<"k","o">> >>,
    << <<"d","e">>, <<"d","e">> >>,
    << <<"d","e","u">>, <<"d","e">> >>,
    << <<"g","e","r">>, <<"d","e">> >>,
    << <<"d","e","-","a","t">>, <<"d","e">> >>,
    << <<"d","e","-","c","h">>, <<"d","e">> >>,
    << <<"f","r">>, <<"f","r","-","f","r">> >>,
    << <<"f","r","a">>, <<"f","r","-","f","r">> >>,
    << <<"f","r","e">>, <<"f","r","-","f","r">> >>,
    << <<"f","r","-","f","r">>, <<"f","r","-","f","r">> >>,
    << <<"f","r","-","c","a">>, <<"f","r","-","c","a">> >>,
    << <<"f","r","-","b","e">>, <<"f","r","-","f","r">> >>,
    << <<"f","r","-","c","h">>, <<"f","r","-","f","r">> >>,
    << <<"i","t">>, <<"i","t">> >>,
    << <<"i","t","a">>, <<"i","t">> >>,
    << <<"e","s">>, <<"e","s">> >>,
    << <<"s","p","a">>, <<"e","s">> >>,
    << <<"e","s","-","e","s">>, <<"e","s">> >>,
    << <<"e","s","-","m","x">>, <<"e","s","-","l","a">> >>,
    << <<"e","s","-","a","r">>, <<"e","s","-","l","a">> >>,
    << <<"e","s","-","c","o">>, <<"e","s","-","l","a">> >>,
    << <<"e","s","-","c","l">>, <<"e","s","-","l","a">> >>,
    << <<"e","s","-","l","a">>, <<"e","s","-","l","a">> >>,
    << <<"p","t">>, <<"p","t","-","p","t">> >>,
    << <<"p","o","r">>, <<"p","t","-","p","t">> >>,
    << <<"p","t","-","p","t">>, <<"p","t","-","p","t">> >>,
    << <<"p","t","-","b","r">>, <<"p","t","-","b","r">> >>,
    << <<"r","u">>, <<"r","u">> >>,
    << <<"r","u","s">>, <<"r","u">> >>,
    << <<"p","l">>, <<"p","l">> >>,
    << <<"p","o","l">>, <<"p","l">> >>,
    << <<"n","l">>, <<"n","l">> >>,
    << <<"n","l","d">>, <<"n","l">> >>,
    << <<"d","u","t">>, <<"n","l">> >>,
    << <<"s","v">>, <<"s","v">> >>,
    << <<"s","w","e">>, <<"s","v">> >>,
    << <<"t","r">>, <<"t","r">> >>,
    << <<"t","u","r">>, <<"t","r">> >>,
    << <<"e","l">>, <<"e","l">> >>,
    << <<"e","l","l">>, <<"e","l">> >>,
    << <<"g","r","e">>, <<"e","l">> >>,
    << <<"c","s">>, <<"c","s">> >>,
    << <<"c","e","s">>, <<"c","s">> >>,
    << <<"c","z","e">>, <<"c","s">> >>,
    << <<"h","u">>, <<"h","u">> >>,
    << <<"h","u","n">>, <<"h","u">> >>,
    << <<"f","i">>, <<"f","i">> >>,
    << <<"f","i","n">>, <<"f","i">> >>,
    << <<"r","o">>, <<"r","o">> >>,
    << <<"r","o","n">>, <<"r","o">> >>,
    << <<"r","u","m">>, <<"r","o">> >>,
    << <<"d","a">>, <<"d","a">> >>,
    << <<"d","a","n">>, <<"d","a">> >>,
    << <<"h","i">>, <<"h","i">> >>,
    << <<"h","i","n">>, <<"h","i">> >>,
    << <<"b","n">>, <<"b","n">> >>,
    << <<"b","e","n">>, <<"b","n">> >>,
    << <<"v","i">>, <<"v","i">> >>,
    << <<"v","i","e">>, <<"v","i">> >>,
    << <<"t","h">>, <<"t","h">> >>,
    << <<"t","h","a">>, <<"t","h">> >>,
    << <<"a","r">>, <<"a","r">> >>,
    << <<"a","r","a">>, <<"a","r">> >>,
    << <<"f","a">>, <<"f","a">> >>,
    << <<"f","a","s">>, <<"f","a">> >>,
    << <<"p","e","r">>, <<"f","a">> >>,
    << <<"h","e">>, <<"h","e">> >>,
    << <<"h","e","b">>, <<"h","e">> >> }

\* DEFAULT_VOICE_STYLES (phonemizer.rs:152-213)
DEFAULT_VOICE_STYLES ==
  { << <<"e","n","-","u","s">>, "af_sky" >>,
    << <<"e","n","-","g","b">>, "bf_emma" >>,
    << <<"e","n","-","a","u">>, "bf_emma" >>,
    << <<"e","n","-","c","a">>, "af_sky" >>,
    << <<"e","n","-","n","z">>, "bf_emma" >>,
    << <<"e","n","-","i","e">>, "bf_emma" >>,
    << <<"e","n","-","z","a">>, "bf_emma" >>,
    << <<"e","n","-","i","n">>, "bf_emma" >>,
    << <<"e","n","-","u","s","-","m","a","l","e">>, "am_liam" >>,
    << <<"e","n","-","g","b","-","m","a","l","e">>, "bm_george" >>,
    << <<"z","h">>, "zf_xiaoxiao" >>,
    << <<"z","h","-","c","n">>, "zf_xiaoxiao" >>,
    << <<"z","h","-","t","w">>, "zf_xiaoxiao" >>,
    << <<"z","h","-","y","u","e">>, "zf_xiaoxiao" >>,
    << <<"j","a">>, "jf_alpha" >>,
    << <<"j","p","n">>, "jf_alpha" >>,
    << <<"k","o">>, "jf_alpha" >>,
    << <<"k","o","r">>, "jf_alpha" >>,
    << <<"d","e">>, "bf_emma" >>,
    << <<"f","r","-","f","r">>, "af_sarah.4+af_nicole.6" >>,
    << <<"e","s">>, "ef_dora" >>,
    << <<"e","s","-","e","s">>, "ef_dora" >>,
    << <<"e","s","-","m","x">>, "ef_dora" >>,
    << <<"e","s","-","a","r">>, "ef_dora" >>,
    << <<"e","s","-","l","a">>, "ef_dora" >>,
    << <<"i","t">>, "af_sarah.4+af_nicole.6" >>,
    << <<"p","t","-","p","t">>, "pf_dora" >>,
    << <<"p","t","-","b","r">>, "pf_dora" >>,
    << <<"r","u">>, "af_sarah.4+af_nicole.6" >>,
    << <<"e","s","-","m","a","l","e">>, "em_alex" >>,
    << <<"e","s","-","e","s","-","m","a","l","e">>, "em_alex" >>,
    << <<"p","t","-","m","a","l","e">>, "pm_alex" >>,
    << <<"p","t","-","p","t","-","m","a","l","e">>, "pm_alex" >>,
    << <<"p","t","-","b","r","-","m","a","l","e">>, "pm_alex" >>,
    << <<"n","l">>, "am_liam" >>,
    << <<"s","v">>, "am_liam" >>,
    << <<"d","a">>, "am_liam" >>,
    << <<"f","i">>, "am_liam" >>,
    << <<"n","o">>, "am_liam" >>,
    << <<"d","e","f","a","u","l","t">>, "af_sky" >>,
    << <<"d","e","f","a","u","l","t","-","m","a","l","e">>, "am_liam" >> }

\* CUSTOM_VOICE_STYLES (phonemizer.rs:218-292)
CUSTOM_VOICE_STYLES ==
  { << <<"e","n","-","u","s">>, "en_eey" >>,
    << <<"e","n","-","g","b">>, "en_bft" >>,
    << <<"e","n","-","a","u">>, "en_bft" >>,
    << <<"e","n","-","c","a">>, "en_eey" >>,
    << <<"e","n","-","n","z">>, "en_bft" >>,
    << <<"e","n","-","i","e">>, "en_bft" >>,
    << <<"e","n","-","z","a">>, "en_bft" >>,
    << <<"e","n","-","i","n">>, "en_bft" >>,
    << <<"e","n","-","u","s","-","m","a","l","e">>, "en_erb" >>,
    << <<"e","n","-","g","b","-","m","a","l","e">>, "en_erb" >>,
    << <<"z","h">>, "zh_awb" >>,
    << <<"z","h","-","c","n">>, "zh_awb" >>,
    << <<"z","h","-","t","w">>, "zh_awb" >>,
    << <<"z","h","-","y","u","e">>, "zh_awb" >>,
    << <<"j","a">>, "ja_fay" >>,
    << <<"j","p","n">>, "ja_fay" >>,
    << <<"k","o">>, "ko_fay" >>,
    << <<"k","o","r">>, "ko_fay" >>,
    << <<"d","e">>, "de_hft" >>,
    << <<"d","e","u">>, "de_hft" >>,
    << <<"f","r","-","f","r">>, "fr_cft" >>,
    << <<"f","r">>, "fr_cft" >>,
    << <<"f","r","a">>, "fr_cft" >>,
    << <<"f","r","-","c","a">>, "fr_cft" >>,
    << <<"e","s">>, "es_faz" >>,
    << <<"s","p","a">>, "es_faz" >>,
    << <<"e","s","-","e","s">>, "es_faz" >>,
    << <<"e","s","-","l","a">>, "es_faz" >>,
    << <<"p","t","-","p","t">>, "pt_eey" >>,
    << <<"p","t">>, "pt_eey" >>,
    << <<"p","t","-","b","r">>, "pt_eey" >>,
    << <<"r","u">>, "ru_erb" >>,
    << <<"r","u","s">>, "ru_erb" >>,
    << <<"i","t">>, "fr_cft" >>,
    << <<"p","l">>, "de_hft" >>,
    << <<"n","l">>, "de_hft" >>,
    << <<"s","v">>, "de_hft" >>,
    << <<"c","s">>, "de_hft" >>,
    << <<"f","i">>, "de_hft" >>,
    << <<"v","i">>, "ja_fay" >>,
    << <<"t","h">>, "ja_fay" >>,
    << <<"h","i">>, "en_bft" >>,
    << <<"b","n">>, "en_bft" >>,
    << <<"a","r">>, "en_eey" >>,
    << <<"h","e">>, "en_eey" >>,
    << <<"f","a">>, "en_eey" >>,
    << <<"d","e","f","a","u","l","t">>, "en_eey" >> }

Lookup(map, key)  == (CHOOSE p \in map : p[1] = key)[2]
HasKey(map, key)  == \E p \in map : p[1] = key

Str_en_us   == <<"e", "n", "-", "u", "s">>
Str_default == <<"d", "e", "f", "a", "u", "l", "t">>

\* whatlang::detect answers nothing, or a language (ISO 639-3 code) with a
\* confidence, here in hundredths
WhatlangOutcomes ==
  { [found |-> FALSE, lang |-> <<>>, conf |-> 0],
    [found |-> TRUE, lang |-> <<"s", "p", "a">>, conf |-> 90],
    [found |-> TRUE, lang |-> <<"s", "p", "a">>, conf |-> 40],
    [found |-> TRUE, lang |-> <<"c", "m", "n">>, conf |-> 90],
    [found |-> TRUE, lang |-> <<"e", "p", "o">>, conf |-> 90] }

\* min_confidence, in hundredths
MinConfidence(lang_code) ==
  IF lang_code \in { <<"z", "h">>, <<"j", "a">>, <<"k", "o">> } THEN 30
  ELSE IF lang_code \in { <<"e", "n">>, <<"d", "e">>, <<"f", "r">>, <<"e", "s">>,
                          <<"i", "t">>, <<"p", "t">>, <<"n", "l">> } THEN 50
  ELSE IF lang_code \in { <<"r", "u">>, <<"a", "r">>, <<"h", "e">>, <<"h", "i">>,
                          <<"b", "n">>, <<"t", "h">> } THEN 40
  ELSE 50

\* trimmed.chars().filter(|c| c.is_alphabetic()).count()
RECURSIVE AlphasTo(_, _)
AlphasTo(s, k) ==
  IF k = 0 THEN 0
  ELSE (IF IsAlphabetic(s[k]) THEN CharCount(s[k]) ELSE 0) + AlphasTo(s, k - 1)
Alphas(s) == AlphasTo(s, Len(s))

\* detect_language(text) -> Option<String>, with info the answer of whatlang
\* on the trimmed text. Every path returns Some.
detect_language(text, info) ==
  LET trimmed == Trim(text)
      alphas  == Alphas(trimmed)
      length  == BLen(trimmed)
  IN  IF length < DetectMinText THEN [some |-> TRUE, code |-> Str_en_us]
      ELSE IF alphas < length \div 3 THEN [some |-> TRUE, code |-> Str_en_us]
      ELSE IF ~info.found THEN [some |-> TRUE, code |-> Str_en_us]
      ELSE IF info.conf < MinConfidence(info.lang) THEN [some |-> TRUE, code |-> Str_en_us]
      ELSE IF HasKey(LANGUAGE_MAP, info.lang)
             THEN [some |-> TRUE, code |-> Lookup(LANGUAGE_MAP, info.lang)]
      ELSE [some |-> TRUE, code |-> Str_en_us]

\* language.split('-').next()
BaseLang(language) ==
  IF ~InSeq(language, "-") THEN language
  ELSE SubSeq(language, 1, (CHOOSE i \in DOMAIN language :
                              language[i] = "-" /\ \A j \in 1..(i-1) : language[j] # "-") - 1)

\* a lookup without the step of the common variants
CommonVariant_none(base_lang) == <<>>

\* the variant tried for a base language after the base itself
CommonVariant(base_lang) ==
  CASE base_lang = <<"e", "n">> -> <<"e", "n", "-", "u", "s">>
    [] base_lang = <<"z", "h">> -> <<"z", "h", "-", "c", "n">>
    [] base_lang = <<"f", "r">> -> <<"f", "r", "-", "f", "r">>
    [] base_lang = <<"e", "s">> -> <<"e", "s", "-", "e", "s">>
    [] base_lang = <<"p", "t">> -> <<"p", "t", "-", "p", "t">>
    [] OTHER -> <<>>

get_default_voice_for_language(language, custom) ==
  LET voice_map == IF custom THEN CUSTOM_VOICE_STYLES ELSE DEFAULT_VOICE_STYLES
      base_lang == BaseLang(language)
      fallback  == IF HasKey(voice_map, Str_default) THEN Lookup(voice_map, Str_default)
                   ELSE "af_sarah.4+af_nicole.6"
  IN  IF HasKey(voice_map, language) THEN Lookup(voice_map, language)
      ELSE IF InSeq(language, "-") /\ base_lang # <<>>
        THEN IF HasKey(voice_map, base_lang) THEN Lookup(voice_map, base_lang)
             ELSE IF CommonVariant(base_lang) # <<>> /\ HasKey(voice_map, CommonVariant(base_lang))
               THEN Lookup(voice_map, CommonVariant(base_lang))
             ELSE fallback
      ELSE fallback

----------------------------------------------------------------------------
(* TTSKoko (kokorox/src/tts/koko.rs): chunking, style selection, style     *)
(* mixing and the chunk loop of tts_raw_audio                              *)

\* text.split(['.', '?', '!', ';']): the pieces between the marks, empty
\* pieces included
ChunkMarks == {46, 63, 33, 59}   \* . ? ! ;
RECURSIVE SplitOn(_, _)
SplitOn(s, marks) ==
  IF \A i \in DOMAIN s : s[i] \notin marks THEN <<s>>
  ELSE <<SubSeq(s, 1, Kth({i \in DOMAIN s : s[i] \in marks}, 1) - 1)>>
         \o SplitOn(SubSeq(s, Kth({i \in DOMAIN s : s[i] \in marks}, 1) + 1, Len(s)), marks)

\* str::split_whitespace
RECURSIVE SplitWhitespace(_)
SplitWhitespace(s) ==
  IF Trim(s) = <<>> THEN <<>>
  ELSE IF \A i \in DOMAIN Trim(s) : ~IsWs(Trim(s)[i]) THEN <<Trim(s)>>
  ELSE <<SubSeq(Trim(s), 1, Kth({i \in DOMAIN Trim(s) : IsWs(Trim(s)[i])}, 1) - 1)>>
         \o SplitWhitespace(SubSeq(Trim(s), Kth({i \in DOMAIN Trim(s) : IsWs(Trim(s)[i])}, 1),
                                   Len(Trim(s))))

\* characters of a text
RECURSIVE CharsTo(_, _)
CharsTo(s, k) == IF k = 0 THEN 0 ELSE CharCount(s[k]) + CharsTo(s, k - 1)

\* tokenize(text_to_phonemes(text).join("")).len(). The phonemizer and the
\* tokenizer are external; they are taken to give one token per character.
token_count(text) == CharsTo(text, Len(text))

\* format!("{} {}", a, b)
WithSpace(a, b) == Cat(Cat(a, <<32>>), b)

\* the word loop of split_text_into_chunks; st holds chunks and word_chunk
WordStep(st, word, test_chunk, max_tokens) ==
  IF token_count(test_chunk) > max_tokens
    THEN [chunks     |-> IF st.word_chunk # <<>> THEN Append(st.chunks, st.word_chunk)
                         ELSE st.chunks,
          word_chunk |-> word]
    ELSE [chunks |-> st.chunks, word_chunk |-> test_chunk]
RECURSIVE WordLoop(_, _, _)
WordLoop(st, words, max_tokens) ==
  IF words = <<>> THEN st
  ELSE WordLoop(WordStep(st, Head(words),
                         (IF st.word_chunk = <<>> THEN Head(words)
                          ELSE WithSpace(st.word_chunk, Head(words))),
                         max_tokens),
                Tail(words), max_tokens)

\* if !word_chunk.is_empty() { chunks.push(word_chunk) }
PushWordChunk(w) == IF w.word_chunk # <<>> THEN Append(w.chunks, w.word_chunk) ELSE w.chunks

\* the sentence loop; st holds chunks and current_chunk, sentence is the
\* trimmed piece with its period
SentenceStep(st, sentence, max_tokens) ==
  IF token_count(sentence) > max_tokens
    THEN [chunks        |-> PushWordChunk(WordLoop([chunks |-> st.chunks, word_chunk |-> <<>>],
                                                   SplitWhitespace(sentence), max_tokens)),
          current_chunk |-> st.current_chunk]
  ELSE IF st.current_chunk # <<>>
    THEN IF token_count(WithSpace(st.current_chunk, sentence)) > max_tokens
           THEN [chunks |-> Append(st.chunks, st.current_chunk), current_chunk |-> sentence]
           ELSE [chunks |-> st.chunks,
                 current_chunk |-> WithSpace(st.current_chunk, sentence)]
  ELSE [chunks |-> st.chunks, current_chunk |-> sentence]
RECURSIVE SentenceLoop(_, _, _)
SentenceLoop(st, sentences, max_tokens) ==
  IF sentences = <<>> THEN st
  ELSE SentenceLoop(SentenceStep(st, Cat(Trim(Head(sentences)), <<46>>), max_tokens),
                    Tail(sentences), max_tokens)

\* if !current_chunk.is_empty() { chunks.push(current_chunk) }
PushCurrentChunk(st) ==
  IF st.current_chunk # <<>> THEN Append(st.chunks, st.current_chunk) ELSE st.chunks

split_text_into_chunks(text, max_tokens) ==
  PushCurrentChunk(
    SentenceLoop([chunks |-> <<>>, current_chunk |-> <<>>],
                 SelectSeq(SplitOn(text, ChunkMarks), LAMBDA s : Trim(s) # <<>>),
                 max_tokens))

----------------------------------------------------------------------------
(* Style selection of tts_raw_audio                                        *)

\* style names that occur; the bank holds some of them
VoiceNames == {"af_sky", "pf_dora", "en_eey", "voice_a", "voice_b"}
\* the names among them that start with en_, zh_, ja_, fr_, de_, es_, pt_,
\* ru_ or ko_
CustomPrefixed == {"en_eey"}

\* is_using_custom_voices: the path contains "custom", or a loaded style
\* has one of the prefixes
is_using_custom_voices(bank, path_custom) ==
  path_custom \/ \E k \in DOMAIN bank : k \in CustomPrefixed

\* self.styles.keys().next(): some key of the map, none when it is empty
FirstKeys(bank) == IF DOMAIN bank = {} THEN {<<>>} ELSE {<<k>> : k \in DOMAIN bank}

\* fallback_style: .unwrap() of that key panics on None
FallbackStyle(first) ==
  IF first = <<>> THEN [panic |-> TRUE, style |-> ""]
  ELSE [panic |-> FALSE, style |-> first[1]]

\* effective_style of kokorox; default_style is what
\* get_default_voice_for_language gave, first the first key of the bank
effective_style(bank, default_style, style_name, force, first) ==
  IF ~force
    THEN IF default_style \in DOMAIN bank THEN [panic |-> FALSE, style |-> default_style]
         ELSE IF style_name \notin DOMAIN bank THEN FallbackStyle(first)
         ELSE [panic |-> FALSE, style |-> style_name]
  ELSE IF style_name \notin DOMAIN bank THEN FallbackStyle(first)
  ELSE [panic |-> FALSE, style |-> style_name]

\* effective_style of kokoros: the user's style is taken unchecked
effective_style_kokoros(bank, default_style, style_name, force) ==
  IF ~force
    THEN IF default_style \in DOMAIN bank THEN [panic |-> FALSE, style |-> default_style]
         ELSE [panic |-> FALSE, style |-> style_name]
  ELSE [panic |-> FALSE, style |-> style_name]

----------------------------------------------------------------------------
(* Style tables and mix_styles                                             *)
(* A style spec is a sequence of pieces: a voice name, or one of the       *)
(* characters "+", "." and the digits. Numbers are exact: a table element  *)
(* is an integer, a portion is counted in hundredths, and a blended        *)
(* element in thousandths (portion * 0.1 of an element).                   *)

StyleRows == 511      \* vec![[[0.0; 256]; 1]; 511]
StyleDim  == 256      \* [f32; 256]

\* element j of row len of the table loaded for a voice
StyleElem(seed, len, j) == ((seed * 7 + len * 3 + j * seed) % 19) - 9

\* style[tokens_len][0].to_vec(); indexing past the last row panics
StyleRow(seed, tokens_len) == [j \in 1..StyleDim |-> StyleElem(seed, tokens_len, j)]

Digits == {"0", "1", "2", "3", "4", "5", "6", "7", "8", "9"}
DigitValue(d) ==
  CASE d = "0" -> 0 [] d = "1" -> 1 [] d = "2" -> 2 [] d = "3" -> 3 [] d = "4" -> 4
    [] d = "5" -> 5 [] d = "6" -> 6 [] d = "7" -> 7 [] d = "8" -> 8 [] d = "9" -> 9

\* the value of a run of digits
RECURSIVE DecimalValue(_)
DecimalValue(ds) ==
  IF ds = <<>> THEN 0 ELSE DecimalValue(SubSeq(ds, 1, Len(ds) - 1)) * 10 + DigitValue(ds[Len(ds)])

\* the first two places after the point, in hundredths
FractionValue(ds) ==
  (IF Len(ds) >= 1 THEN DigitValue(ds[1]) * 10 ELSE 0)
  + (IF Len(ds) >= 2 THEN DigitValue(ds[2]) ELSE 0)

\* str::split_once('.'): the text before the first point and the text after
HasPoint(s) == \E i \in DOMAIN s : s[i] = "."
FirstPoint(s) == Kth({i \in DOMAIN s : s[i] = "."}, 1)

\* a parse that reads every portion as five hundredths
ParseF32_fraction(portion) == [ok |-> TRUE, value |-> 5]

\* portion.parse::<f32>() over digits and points: Ok for digits with at most
\* one point among them, in hundredths
ParseF32(portion) ==
  IF /\ \A i \in DOMAIN portion : portion[i] \in Digits \cup {"."}
     /\ \E i \in DOMAIN portion : portion[i] \in Digits
     /\ Cardinality({i \in DOMAIN portion : portion[i] = "."}) <= 1
    THEN IF HasPoint(portion)
           THEN [ok |-> TRUE,
                 value |-> DecimalValue(SubSeq(portion, 1, FirstPoint(portion) - 1)) * 100
                           + FractionValue(SubSeq(portion, FirstPoint(portion) + 1, Len(portion)))]
           ELSE [ok |-> TRUE, value |-> DecimalValue(portion) * 100]
  ELSE [ok |-> FALSE, value |-> 0]

\* a &str as a key of the bank: a spec of one piece is that name, a longer
\* one is a string the bank does not hold
KeyOf(s) == IF Len(s) = 1 THEN s[1] ELSE ""

\* the loop over the components: style_names and style_portions, the
\* portion already multiplied by 0.1 (hundredths of the portion are
\* thousandths of the weight)
RECURSIVE ParseComponents(_)
ParseComponents(comps) ==
  IF comps = <<>> THEN <<>>
  ELSE (IF HasPoint(Head(comps))
          THEN IF ParseF32(SubSeq(Head(comps), FirstPoint(Head(comps)) + 1, Len(Head(comps)))).ok
                 THEN <<[name |-> KeyOf(SubSeq(Head(comps), 1, FirstPoint(Head(comps)) - 1)),
                         portion |-> ParseF32(SubSeq(Head(comps), FirstPoint(Head(comps)) + 1,
                                                     Len(Head(comps)))).value]>>
                 ELSE <<>>
          ELSE <<>>)
       \o ParseComponents(Tail(comps))

\* blended_style[0][j] += style_slice[j] * portion, over the components
\* whose name the bank holds
RECURSIVE Blend(_, _, _, _)
Blend(bank, parsed, tokens_len, j) ==
  IF parsed = <<>> THEN 0
  ELSE (IF Head(parsed).name \in DOMAIN bank
          THEN StyleElem(bank[Head(parsed).name], tokens_len, j) * Head(parsed).portion
          ELSE 0)
       + Blend(bank, Tail(parsed), tokens_len, j)

\* the composite branch, given the parsed components
MixParsed(bank, parsed, tokens_len) ==
  IF tokens_len >= StyleRows /\ \E i \in DOMAIN parsed : parsed[i].name \in DOMAIN bank
    THEN [kind |-> "panic"]
  ELSE [kind |-> "Ok", scale |-> 1000,
        vec |-> [j \in 1..StyleDim |-> Blend(bank, parsed, tokens_len, j)]]

\* a mix that fails when a component is missing from the bank
mix_styles_strict(bank, style_name, tokens_len) ==
  IF \A i \in DOMAIN style_name : style_name[i] # "+"
    THEN [kind |-> "Err"]
  ELSE IF \E i \in DOMAIN ParseComponents(SplitOn(style_name, {"+"})) :
            ParseComponents(SplitOn(style_name, {"+"}))[i].name \notin DOMAIN bank
    THEN [kind |-> "Err"]
  ELSE MixParsed(bank, ParseComponents(SplitOn(style_name, {"+"})), tokens_len)

\* TTSKoko::mix_styles
mix_styles(bank, style_name, tokens_len) ==
  IF \A i \in DOMAIN style_name : style_name[i] # "+"
    THEN IF KeyOf(style_name) \in DOMAIN bank
           THEN IF tokens_len >= StyleRows THEN [kind |-> "panic"]
                ELSE [kind |-> "Ok", scale |-> 1,
                      vec |-> StyleRow(bank[KeyOf(style_name)], tokens_len)]
         ELSE [kind |-> "Err"]
  ELSE MixParsed(bank, ParseComponents(SplitOn(style_name, {"+"})), tokens_len)

----------------------------------------------------------------------------
(* The chunk loop of tts_raw_audio                                         *)

MaxTokens == 500      \* self.split_text_into_chunks(txt, 500)

\* what the external parts can do with a chunk: text_to_phonemes fails, the
\* model fails, or both succeed
ChunkOutcomes == {"ok", "phonemize_err", "infer_err"}

\* the samples the model returns for chunk i of a call
InferAudio(i) == <<i>>

\* tokenize (external): one token id per character, none of them 0; a run
\* of letters stays a run of ids
tokenize(phonemes) == [k \in DOMAIN phonemes |->
                         IF phonemes[k] < 0 THEN phonemes[k] ELSE (phonemes[k] % 177) + 1]

SilenceToken == 30    \* tokens.insert(0, 30)

\* for _ in 0..initial_silence.unwrap_or(0) { tokens.insert(0, 30) }
WithSilence(tokens, initial_silence) == [k \in 1..initial_silence |-> SilenceToken] \o tokens

\* vec![0] + tokens + [0]
PadTokens(tokens) == <<0>> \o tokens \o <<0>>

\* OrtKoko::infer: the row of tokens it is given is padded again unless it
\* is empty, and that is what the session runs
SessionInput(tokens) == IF tokens # <<>> THEN PadTokens(tokens) ELSE tokens

\* tokens.len()
TokensLen(chunk, initial_silence) == token_count(chunk) + initial_silence

\* for chunk in chunks: `?` on text_to_phonemes and on mix_styles and the
\* return Err of the infer arm leave the function; st holds final_audio,
\* the rows of tokens the session ran and the rows asked of the style table
RECURSIVE ChunkLoop(_, _, _, _, _, _, _)
ChunkLoop(bank, effective, chunks, outcomes, initial_silence, i, st) ==
  IF i > Len(chunks) THEN [kind |-> "Ok", audio |-> st.audio, ran |-> st.ran, rows |-> st.rows]
  ELSE IF outcomes[i] = "phonemize_err"
    THEN [kind |-> "Err", audio |-> <<>>, ran |-> st.ran, rows |-> st.rows]
  ELSE IF mix_styles(bank, <<effective>>, TokensLen(chunks[i], initial_silence)).kind # "Ok"
    THEN [kind |-> mix_styles(bank, <<effective>>, TokensLen(chunks[i], initial_silence)).kind,
          audio |-> <<>>, ran |-> st.ran,
          rows |-> Append(st.rows, TokensLen(chunks[i], initial_silence))]
  ELSE IF outcomes[i] = "infer_err"
    THEN [kind |-> "Err", audio |-> <<>>,
          ran |-> Append(st.ran, SessionInput(PadTokens(WithSilence(tokenize(chunks[i]),
                                                                    initial_silence)))),
          rows |-> Append(st.rows, TokensLen(chunks[i], initial_silence))]
  ELSE ChunkLoop(bank, effective, chunks, outcomes, initial_silence, i + 1,
                 [audio |-> st.audio \o InferAudio(i),
                  ran   |-> Append(st.ran, SessionInput(PadTokens(WithSilence(tokenize(chunks[i]),
                                                                              initial_silence)))),
                  rows  |-> Append(st.rows, TokensLen(chunks[i], initial_silence))])

\* tts_raw_audio after the style selection, sel its result
TtsWithStyle(bank, sel, chunks, outcomes, initial_silence) ==
  IF sel.panic THEN [kind |-> "panic", audio |-> <<>>, ran |-> <<>>, rows |-> <<>>]
  ELSE ChunkLoop(bank, sel.style, chunks, outcomes, initial_silence, 1,
                 [audio |-> <<>>, ran |-> <<>>, rows |-> <<>>])

\* TTSKoko::tts_raw_audio with auto_detect_language false. The chunks of the
\* model hold no digit and the language is not Spanish, so number expansion
\* and accent restoration leave them as they are.
tts_raw_audio(bank, txt, default_style, style_name, force, first, outcomes, initial_silence) ==
  TtsWithStyle(bank, effective_style(bank, default_style, style_name, force, first),
               split_text_into_chunks(txt, MaxTokens), outcomes, initial_silence)

----------------------------------------------------------------------------
(* TTSKoko as a machine: the bank is loaded once, then functions are called *)

\* texts handed to the chunker
ChunkTexts ==
  { <<97, 97, 32, 98, 98, 46, 32, 99, 99, 46>>,                    \* "aa bb. cc."
    <<97, 97, 46, 32, 98, 98, 98, 98, 98, 98, 98, 98, 32, 99, 99, 32, 100, 100, 46, 32,
      101, 101, 46>>,                                              \* "aa. bbbbbbbb cc dd. ee."
    <<97, 63, 98, 33, 32, 59, 99>>,                                \* "a?b! ;c"
    <<32, 46, 10>>,                                                \* " .\n"
    <<97, 32, 98, 32, 99, 32, 100>>,                               \* "a b c d"
    Run(300) \o <<46, 32>> \o Run(300) \o <<46>>,                  \* two sentences of 300 letters
    Run(200) \o <<46, 32>> \o Run(200) \o <<32>> \o Run(400) \o <<46>>,
    Run(600) \o <<46>> }                                           \* one word of 600 letters
\* token budgets; tts_raw_audio passes 500
ChunkBudgets == {1, 2, 3, 6, 8, 500}

\* no call yet
NoCall == [fn |-> "new"]

\* the bank when another machine runs
\* load_voices: one table per name of the archive; the content of a table is
\* fixed by its seed
VoiceSeed(name) ==
  CASE name = "af_sky" -> 1 [] name = "pf_dora" -> 2 [] name = "en_eey" -> 3
    [] name = "voice_a" -> 4 [] OTHER -> 7

LoadVoices(names) == [v \in names |-> VoiceSeed(v)]

\* TTSKoko::new over any archive, the empty one included
KokoInit ==
  /\ styles \in {LoadVoices(names) : names \in SUBSET VoiceNames}
  /\ kokoCall = NoCall
  /\ kokoRet = <<>>

KokoIdle ==
  /\ styles = LoadVoices({"af_sky"})
  /\ kokoCall = NoCall
  /\ kokoRet = <<>>

SplitCall ==
  /\ kokoCall = NoCall
  /\ \E text \in ChunkTexts, max_tokens \in ChunkBudgets :
       /\ kokoCall' = [fn |-> "split_text_into_chunks", text |-> text, max_tokens |-> max_tokens]
       /\ kokoRet' = split_text_into_chunks(text, max_tokens)
       /\ UNCHANGED <<styles, wsVars, chanVars, cliVars, pipeVars, modelVars, postVars>>

\* language codes and user styles handed to tts_raw_audio
KokoLanguages ==
  { <<"e", "n", "-", "u", "s">>, <<"e", "s">>, <<"p", "t", "-", "a", "o">>,
    <<"e", "n", "-", "s", "g">>, <<"f", "r", "-", "c", "a">>, <<"x", "x">>,
    <<"x", "x", "-", "y", "y">>, <<"-", "x">> }
UserStyles == {"af_sky", "voice_a", "nope"}

\* the style selection of a tts_raw_audio call, in both copies of TTSKoko
SelectCall ==
  /\ kokoCall = NoCall
  /\ \E language \in KokoLanguages, style_name \in UserStyles, force \in BOOLEAN,
        path_custom \in BOOLEAN, first \in FirstKeys(styles) :
       \E default_style \in {get_default_voice_for_language(
                               language, is_using_custom_voices(styles, path_custom))} :
         /\ kokoCall' = [fn |-> "effective_style", language |-> language,
                         style_name |-> style_name, force_style |-> force,
                         default_style |-> default_style]
         /\ kokoRet' = [kokorox |-> effective_style(styles, default_style, style_name,
                                                    force, first),
                        kokoros |-> effective_style_kokoros(styles, default_style, style_name,
                                                            force)]
         /\ UNCHANGED <<styles, wsVars, chanVars, cliVars, pipeVars, modelVars, postVars>>

\* get_default_voice_for_language with either table
DefaultVoiceCall ==
  /\ kokoCall = NoCall
  /\ \E language \in KokoLanguages, custom \in BOOLEAN :
       /\ kokoCall' = [fn |-> "get_default_voice_for_language", language |-> language,
                       is_custom |-> custom]
       /\ kokoRet' = get_default_voice_for_language(language, custom)
       /\ UNCHANGED <<styles, wsVars, chanVars, cliVars, pipeVars, modelVars, postVars>>

\* style specs and token counts handed to mix_styles
StyleSpecs ==
  { <<"voice_a">>, <<"nope">>, <<"voice_a", ".", "5">>,
    <<"voice_a", ".", "5", "+", "voice_b", ".", "5">>,
    <<"af_sky", ".", "4", "+", "pf_dora", ".", "6">>,
    <<"voice_a", ".", "2", ".", "5", "+", "nope", ".", "5">>,
    <<"voice_a", "+", "voice_b">>,
    <<"voice_a", ".", "+", "voice_b", ".", "voice_a">>,
    <<"nope", ".", "1", "+", "+", ".", "3">>,
    <<"+">> }
TokenLens == {0, 1, 7, 510, 511, 601}

MixCall ==
  /\ kokoCall = NoCall
  /\ \E style_name \in StyleSpecs, tokens_len \in TokenLens :
       /\ kokoCall' = [fn |-> "mix_styles", style_name |-> style_name, tokens_len |-> tokens_len]
       /\ kokoRet' = mix_styles(styles, style_name, tokens_len)
       /\ UNCHANGED <<styles, wsVars, chanVars, cliVars, pipeVars, modelVars, postVars>>

\* texts handed to tts_raw_audio: of no chunk, of one, two and three chunks,
\* of one chunk of 500 tokens, and of one chunk that is a word of 600
\* letters
TtsTexts ==
  { <<32, 46, 10>>,
    <<97, 97, 32, 98, 98, 46>>,
    <<-300, 46, 32, -300, 46>>,
    <<-200, 46, 32, -200, 32, -400, 46>>,
    <<-499, 46>>,
    <<-600, 46>> }
MaxChunks == 3

\* a tts_raw_audio call as pipe mode and the WebSocket server make it
\* (force_style true); what happens to each chunk is up to the phonemizer
\* and the model
\* initial_silence: None, or Some(n)
Silences == {0, 2, 11}

TtsCall ==
  /\ kokoCall = NoCall
  /\ \E txt \in TtsTexts :
       \E chunks \in {split_text_into_chunks(txt, MaxTokens)} :
         \E style_name \in UserStyles, first \in FirstKeys(styles),
            outcomes \in [1..MaxChunks -> ChunkOutcomes], initial_silence \in Silences :
           /\ \A i \in (Len(chunks) + 1)..MaxChunks : outcomes[i] = "ok"
           /\ kokoCall' = [fn |-> "tts_raw_audio", txt |-> txt, style_name |-> style_name,
                           chunks |-> chunks, outcomes |-> outcomes,
                           initial_silence |-> initial_silence]
           /\ kokoRet' = tts_raw_audio(styles, txt,
                                       get_default_voice_for_language(Str_en_us, FALSE),
                                       style_name, TRUE, first, outcomes, initial_silence)
           /\ UNCHANGED <<styles, wsVars, chanVars, cliVars, pipeVars, modelVars, postVars>>

----------------------------------------------------------------------------
(* Pipe mode: sentence extraction (koko/src/main.rs, Mode::Pipe)           *)

\* s split after each position of cuts: the pieces before the last cut, and the rest
PiecesAt(s, cuts) ==
  [k \in 1..Cardinality(cuts) |->
     SubSeq(s, (IF k = 1 THEN 1 ELSE Kth(cuts, k - 1) + 1), Kth(cuts, k))]
RestAfter(s, cuts) ==
  IF cuts = {} THEN s ELSE SubSeq(s, Kth(cuts, Cardinality(cuts)) + 1, Len(s))

Str_zh == <<"z", "h">>
Str_ja == <<"j", "a">>
Str_ko == <<"k", "o">>
IsCjkSession(language) ==
  CodeStartsWith(language, Str_zh) \/ CodeStartsWith(language, Str_ja)
    \/ CodeStartsWith(language, Str_ko)

\* CJK scan: a sentence ends at each of these (current then holds the mark
\* itself, so current.trim() is never empty there)
CjkTerminators == {12290, 65281, 65311} \cup Terminals   \* "\u{3002}"  "\u{FF01}"  "\u{FF1F}"
CjkCuts(s) == {i \in DOMAIN s : s[i] \in CjkTerminators}

\* sentence_segmentation::processor::english is an external crate. It is taken
\* to split the text at some of its sentence ends or whitespace runs and to
\* return the non-empty trimmed pieces in order; which of them is left open.
CutCandidates(s) ==
  {i \in 1..(Len(s) - 1) :
     \/ s[i] \in Terminals /\ s[i+1] \notin Terminals
     \/ IsWs(s[i]) /\ ~IsWs(s[i+1])}
MaxCuts == 1
CutChoices(s) == {c \in SUBSET CutCandidates(s) : Cardinality(c) <= MaxCuts}
english(s, cuts) ==
  SelectSeq(MapSeq(Trim, Append(PiecesAt(s, cuts), RestAfter(s, cuts))),
            LAMBDA p : p # <<>>)

utf8_safe_sentence_segmentation(text, cuts) ==
  IF text = <<>> THEN <<>>
  ELSE postprocess_sentences(english(preprocess_text_for_segmentation(text), cuts))

\* the text the segmenter is given for a buffer
SegmenterInput(buf) == preprocess_text_for_segmentation(ApplyLiterals(buf, BufferYearFixes))

\* sentences[..len-1] folded with a trailing space each
CompleteText(sentences) ==
  Flatten([k \in 1..(Len(sentences) - 1) |-> sentences[k] \o Str_space])

\* The non-CJK extraction once the segmenter has answered `sentences`
ExtractFrom(buf, sentences) ==
  IF sentences = <<>>
    THEN [sentences |-> <<>>, segments |-> sentences, buffer |-> buf]
  ELSE IF ~EndsTerminal(Last(sentences))
    THEN IF Len(sentences) > 1
           THEN [sentences |-> SubSeq(sentences, 1, Len(sentences) - 1),
                 segments  |-> sentences,
                 buffer    |-> IF StartsWith(buf, CompleteText(sentences))
                                 THEN SliceFrom(buf, BLen(CompleteText(sentences)))
                                 ELSE Last(sentences)]
           ELSE [sentences |-> <<>>, segments |-> sentences, buffer |-> buf]
  ELSE [sentences |-> sentences, segments |-> sentences, buffer |-> <<>>]

\* Extraction of one loop iteration: the sentences to synthesize and the
\* buffer that is left, before the starvation guard
Extract(buf, language, cuts) ==
  IF IsCjkSession(language)
    THEN [sentences |-> PiecesAt(buf, CjkCuts(buf)),
          segments  |-> <<>>,
          buffer    |-> IF Trim(RestAfter(buf, CjkCuts(buf))) # <<>>
                          THEN RestAfter(buf, CjkCuts(buf)) ELSE <<>>]
    ELSE ExtractFrom(buf, utf8_safe_sentence_segmentation(ApplyLiterals(buf, BufferYearFixes), cuts))

\* Starvation guard: no sentence and more than 200 bytes buffered. The slice
\* buffer[..200] panics when byte 200 is inside a character.
Guard(ex) ==
  IF ex.sentences = <<>> /\ BLen(ex.buffer) > GuardLen
    THEN IF IsCharBoundary(ex.buffer, GuardLen)
           THEN [sentences |-> <<SliceTo(ex.buffer, GuardLen)>>,
                 buffer    |-> SliceFrom(ex.buffer, GuardLen),
                 forced    |-> TRUE, panic |-> FALSE]
           ELSE [sentences |-> <<>>, buffer |-> ex.buffer, forced |-> TRUE, panic |-> TRUE]
    ELSE [sentences |-> ex.sentences, buffer |-> ex.buffer, forced |-> FALSE, panic |-> FALSE]

----------------------------------------------------------------------------
(* Pipe mode: synthesis of a unit                                          *)

\* split_text_into_chunks yields no chunk when nothing but whitespace lies
\* between the marks . ? ! ;
HasChunks(txt) == \E i \in DOMAIN txt : ~IsWs(txt[i]) /\ txt[i] \notin Terminals \cup {59}   \* ";"

\* tts_raw_audio: the language phonemization runs with
TtsLanguage(txt, lan_arg, auto_detect_language, info) ==
  IF auto_detect_language
    THEN LET d == detect_language(txt, info) IN IF d.some THEN d.code ELSE lan_arg
    ELSE lan_arg

\* what tts_raw_audio can answer for a text: without chunks the empty audio;
\* otherwise an error (phonemizer, style or model), the model's samples, or
\* a panic inside the call
Samples == {-1, 0, 1}
AudioChunks == {<<>>, <<1>>, <<0, -1>>}
\* a chunk of the text has more tokens than the style tables have rows
\* (style[tokens_len] in mix_styles)
LongChunk(chunks) == \E i \in DOMAIN chunks : token_count(chunks[i]) >= StyleRows

\* with such a chunk the call ends in an error (phonemizer, style missing)
\* or in the panic of the index, never in audio
SynthOutcomes(txt) ==
  IF HasChunks(txt)
    THEN IF LongChunk(split_text_into_chunks(txt, MaxTokens))
           THEN {[ok |-> FALSE, audio |-> <<>>, panic |-> FALSE],
                 [ok |-> FALSE, audio |-> <<>>, panic |-> TRUE]}
         ELSE {[ok |-> FALSE, audio |-> <<>>, panic |-> FALSE]}
                \cup {[ok |-> TRUE, audio |-> a, panic |-> FALSE] : a \in AudioChunks \ {<<>>}}
    ELSE {[ok |-> TRUE, audio |-> <<>>, panic |-> FALSE]}

\* text_to_process of a sentence of the loop, up to the preview slice
TextToProcess(sentence, language) ==
  RestoreIfSpanish(UnitFixes(WithPeriod(Trim(sentence))), language)

\* &text_to_process[..50] panics when byte 50 is inside a character
PreviewPanics(text) == BLen(text) > PreviewLen /\ ~IsCharBoundary(text, PreviewLen)

\* one tts_raw_audio call of the session, as logged in units
UnitOf(kind, sentence, text, language, style_arg, out) ==
  [kind     |-> kind,
   sentence |-> sentence,
   text     |-> text,
   lang     |-> TtsLanguage(text, language, FALSE, [found |-> FALSE, lang |-> <<>>, conf |-> 0]),
   style    |-> style_arg,
   auto     |-> FALSE,
   force    |-> TRUE,
   ok       |-> out.ok,
   panicked |-> out.panic,
   audio    |-> out.audio]

\* the sentences of complete_sentences that are not empty after trim()
NonEmpty(sentences) == SelectSeq(MapSeq(Trim, sentences), LAMBDA p : p # <<>>)

\* the loop over complete_sentences stops at the first preview panic; texts
\* holds text_to_process of each sentence
PanicIndex(texts) ==
  IF \A k \in DOMAIN texts : ~PreviewPanics(texts[k]) THEN 0
  ELSE CHOOSE k \in DOMAIN texts :
         PreviewPanics(texts[k]) /\ \A j \in 1..(k - 1) : ~PreviewPanics(texts[j])

----------------------------------------------------------------------------
(* Pipe mode: the session (koko/src/main.rs, Mode::Pipe)                   *)

Str_es_lang == <<"e", "s">>
Str_zh_lang == <<"z", "h">>
Languages == {Str_en_us, Str_es_lang, Str_zh_lang}
Styles    == {"af_heart"}

\* lines read from stdin
LineWords  == <<97, 97, 32, 98, 98, 10>>   \* "aa bb\n"
LineEnd    == <<99, 99, 46, 10>>   \* "cc.\n"
LineBang   == <<33, 10>>   \* "!\n"
LineBlob   == Run(61) \o <<10>>   \* "\n"
LineSplit  == Run(199) \o <<233, 10>>   \* "\u{00E9}\n"
LineLong   == Run(600) \o <<10>>   \* "\n"
LineCjk    == <<20013, 12290, 97, 10>>   \* "\u{4E2D}\u{3002}a\n"
LineYear   == <<49, 57, 51, 57, 32, 116, 111, 32, 73, 116, 32, 112, 97, 114, 46, 10>>   \* "1939 to It par.\n"
LineWord   == Run(600) \o <<46, 10>>   \* ".\n"
LineFrag   == <<83, 117, 99, 104, 32, 97, 115, 32, 120, 46, 10>>   \* "Such as x.\n"
Lines == {LineWords, LineEnd, LineBang, LineBlob, LineSplit, LineLong, LineCjk, LineYear,
          LineFrag, LineWord}

NoInfo == [found |-> FALSE, lang |-> <<>>, conf |-> 0]

\* detect_language asks whatlang only for texts that pass its own two tests
WhatlangConsulted(text) ==
  LET trimmed == Trim(text)
  IN  /\ BLen(trimmed) >= DetectMinText
      /\ Alphas(trimmed) >= BLen(trimmed) \div 3

\* a writer that would put the new samples in front of the data
write_audio_chunk_front(file, samples) == samples \o file

\* write_audio_chunk: every sample is appended to the file
write_audio_chunk(file, samples) == file \o samples

\* Ok(audio) => tx.send(audio), write_audio_chunk(audio); Err => nothing
OkAudio(newUnits) == MapSeq(LAMBDA u : u.audio, SelectSeq(newUnits, LAMBDA u : u.ok))

\* WavHeader::new(1, tts.sample_rate(), 32)
WavChannels == 1
WavBits     == 32
SampleRate  == 24000

\* WavHeader::write_header: the fields of the header but the two sizes
write_header(channels, sample_rate, bits_per_sample) ==
  [riff |-> "RIFF", wave |-> "WAVE", fmt |-> "fmt ", fmt_size |-> 16, format |-> 3,
   channels |-> channels, sample_rate |-> sample_rate,
   byte_rate |-> (sample_rate * channels * bits_per_sample) \div 8,
   block_align |-> (channels * bits_per_sample) \div 8,
   bits_per_sample |-> bits_per_sample, data |-> "data"]

\* a flush that leaves the new samples behind
flush_nothing(head, data, synced) == synced

\* wav_file.flush(): all that was written is handed on
flush(head, data, synced) == [header |-> head, data |-> data]

\* the body of the loop for one unit: st holds the data of the file, its
\* flushed part and the log; the call is entered, and on Ok(audio) the
\* samples are written and the file is flushed
SinkStep(st, head, u) ==
  [data   |-> IF u.ok THEN write_audio_chunk(st.data, u.audio) ELSE st.data,
   synced |-> IF u.ok THEN flush(head, write_audio_chunk(st.data, u.audio), st.synced)
              ELSE st.synced,
   log    |-> Append(st.log, [data |-> st.data, synced |-> st.synced])]

RECURSIVE SinkRun(_, _, _)
SinkRun(st, head, us) ==
  IF us = <<>> THEN st ELSE SinkRun(SinkStep(st, head, Head(us)), head, Tail(us))

\* the calls made before the process dies: all, or up to the first that
\* panics
UpToPanic(us) ==
  IF \A k \in DOMAIN us : ~us[k].panicked THEN us
  ELSE SubSeq(us, 1, Kth({k \in DOMAIN us : us[k].panicked}, 1))

\* the command lines considered: force_style and the custom voices file are
\* read by the detection branch only, so they vary only under auto_detect
Configs ==
  {c \in [lan : Languages, style : Styles, auto : BOOLEAN, force : BOOLEAN, custom : BOOLEAN] :
     /\ ~c.auto => (~c.force /\ ~c.custom)
     /\ c.force => ~c.custom}

PipeInit ==
  /\ \E c \in Configs :
       /\ lan = c.lan
       /\ style = c.style
       /\ auto_detect = c.auto
       /\ force_style = c.force
       /\ is_custom = c.custom
  /\ pipePc = "reading"
  /\ buffer = <<>>
  /\ session_language = lan
  /\ session_style = style
  /\ language_detected = ~auto_detect
  /\ wavHead = write_header(WavChannels, SampleRate, WavBits)
  /\ wavData = <<>>
  /\ wavSynced = flush(wavHead, wavData, <<>>)
  /\ syncLog = <<>>
  /\ units = <<>>
  /\ fed = <<>>
  /\ nFeeds = 0
  /\ detectLog = <<>>
  /\ lastFeed = [line |-> <<>>, appended |-> <<>>, segments |-> <<>>, forced |-> FALSE,
                 emitted |-> 0, left |-> <<>>, cut |-> "ok"]
  /\ eofBuffer = <<>>

\* the session when pipe mode is not what runs
PipeIdle ==
  /\ lan = Str_en_us /\ style = "af_heart"
  /\ auto_detect = FALSE /\ force_style = FALSE /\ is_custom = FALSE
  /\ pipePc = "reading" /\ buffer = <<>>
  /\ session_language = lan /\ session_style = style
  /\ language_detected = ~auto_detect
  /\ wavHead = write_header(WavChannels, SampleRate, WavBits)
  /\ wavData = <<>>
  /\ wavSynced = flush(wavHead, wavData, <<>>)
  /\ syncLog = <<>>
  /\ units = <<>> /\ fed = <<>> /\ nFeeds = 0 /\ detectLog = <<>>
  /\ lastFeed = [line |-> <<>>, appended |-> <<>>, segments |-> <<>>, forced |-> FALSE,
                 emitted |-> 0, left |-> <<>>, cut |-> "ok"]
  /\ eofBuffer = <<>>

\* a lock step that would run again although the session is locked
LockStep_relock(buf, info) ==
  IF language_detected /\ ~auto_detect
    THEN [language |-> session_language, style |-> session_style, detected |-> TRUE,
          log |-> detectLog]
    ELSE LET runs == auto_detect /\ BLen(buf) > DetectMinLen
             d    == detect_language(buf, info)
             language == IF runs /\ d.some THEN d.code ELSE session_language
         IN  [language |-> language,
              style    |-> IF force_style THEN style
                           ELSE get_default_voice_for_language(language, is_custom),
              detected |-> TRUE,
              log      |-> IF runs
                             THEN Append(detectLog, [text |-> buf, info |-> info, result |-> d])
                             ELSE detectLog]

\* The lock step of an iteration, on the buffer with the line appended
LockStep(buf, info) ==
  IF language_detected
    THEN [language |-> session_language, style |-> session_style, detected |-> TRUE,
          log |-> detectLog]
    ELSE LET runs == auto_detect /\ BLen(buf) > DetectMinLen
             d    == detect_language(buf, info)
             language == IF runs /\ d.some THEN d.code ELSE session_language
         IN  [language |-> language,
              style    |-> IF force_style THEN style
                           ELSE get_default_voice_for_language(language, is_custom),
              detected |-> TRUE,
              log      |-> IF runs
                             THEN Append(detectLog, [text |-> buf, info |-> info, result |-> d])
                             ELSE detectLog]

AllOutcomes ==
  {[ok |-> FALSE, audio |-> <<>>, panic |-> p] : p \in BOOLEAN}
    \cup {[ok |-> TRUE, audio |-> a, panic |-> FALSE] : a \in AudioChunks}

\* the texts handed to tts_raw_audio in an iteration: texts holds
\* text_to_process of each sentence, the loop ends before index stop
UnitTexts(texts, stop) ==
  [k \in 1..(IF stop = 0 THEN Len(texts) ELSE stop - 1) |-> FinalPreprocessed(texts[k])]

\* the answers tts_raw_audio can give for a sequence of texts
OutcomeChoices(text) ==
  {outs \in [DOMAIN text -> AllOutcomes] : \A k \in DOMAIN text : outs[k] \in SynthOutcomes(text[k])}

\* The writes of one iteration of the read loop. plan holds the locals of
\* the iteration, newUnits the tts_raw_audio calls it made with their answers.
Feed(line, plan, newUnits) ==
  /\ fed' = Cat(fed, line)
  /\ nFeeds' = nFeeds + 1
  /\ session_language' = plan.lock.language
  /\ session_style' = plan.lock.style
  /\ language_detected' = plan.lock.detected
  /\ detectLog' = plan.lock.log
  /\ buffer' = plan.g.buffer
  /\ units' = units \o newUnits
  /\ chanQ' = chanQ \o OkAudio(newUnits)
  /\ sentLog' = sentLog \o OkAudio(newUnits)
  /\ \E sink \in {SinkRun([data |-> wavData, synced |-> wavSynced, log |-> syncLog],
                            wavHead, newUnits)} :
       /\ wavData' = sink.data
       /\ wavSynced' = sink.synced
       /\ syncLog' = sink.log
  /\ pipePc' = IF plan.g.panic \/ plan.stop # 0 \/ \E k \in DOMAIN newUnits : newUnits[k].panicked
                 THEN "aborted" ELSE "reading"
  /\ lastFeed' = [line |-> line, appended |-> plan.buf, segments |-> plan.ex.segments,
                  forced |-> plan.g.forced, emitted |-> Len(newUnits),
                  left |-> plan.g.buffer,
                  cut |-> IF plan.g.panic THEN "guard"
                          ELSE IF plan.stop # 0 THEN "preview" ELSE "ok"]
  /\ UNCHANGED <<eofBuffer, wavHead, txOpen, srcVars, cliVars, kokoVars, modelVars, postVars, wsVars>>

\* End of input: the remainder of the buffer is synthesized as the final unit
FinalFlush(out) ==
  /\ pipePc = "reading"
  /\ \E trimmed \in {Trim(buffer)} :
     \E txt \in {FinalPreprocessed(RestoreIfSpanish(WithPeriod(trimmed), session_language))} :
     \E newUnits \in {IF trimmed # <<>>
                        THEN <<UnitOf("final", trimmed, txt, session_language,
                                      session_style, out)>>
                        ELSE <<>>} :
     \E sink \in {SinkRun([data |-> wavData, synced |-> wavSynced, log |-> syncLog],
                          wavHead, newUnits)} :
       /\ out \in (IF trimmed # <<>> THEN SynthOutcomes(txt)
                   ELSE {[ok |-> FALSE, audio |-> <<>>, panic |-> FALSE]})
       /\ units' = units \o newUnits
       /\ chanQ' = chanQ \o OkAudio(newUnits)
       /\ sentLog' = sentLog \o OkAudio(newUnits)
       /\ wavData' = sink.data
       /\ wavSynced' = sink.synced
       /\ syncLog' = sink.log
       /\ pipePc' = IF out.panic THEN "aborted" ELSE "flushed"
  /\ eofBuffer' = buffer
  /\ UNCHANGED <<wavHead, buffer, session_language, session_style, language_detected, fed, nFeeds,
                 detectLog, lastFeed, txOpen, srcVars, cliVars, kokoVars, modelVars, postVars, wsVars>>

\* drop(tx): the channel is closed, the sink drains
Shutdown ==
  /\ pipePc = "flushed"
  /\ txOpen' = FALSE
  /\ pipePc' = "done"
  /\ UNCHANGED <<chanQ, sentLog, srcVars, cliVars, kokoVars, modelVars, postVars, wsVars, buffer, session_language,
                 session_style, language_detected, wavHead, wavData, wavSynced, syncLog, units,
                 fed, nFeeds, detectLog, lastFeed, eofBuffer>>

\* One iteration of the read loop: a line arrives, the language locks, the
\* sentences are extracted and each is synthesized, streamed and written.
\* Each local of the iteration is bound once, in the order the code computes
\* it; info is whatlang's answer, cuts the segmenter's, outs the synthesizer's.
FeedStep ==
  /\ pipePc = "reading"
  /\ nFeeds < MaxFeeds
  /\ \E line \in Lines :
     \E buf \in {Cat(buffer, line)} :
     \E info \in (IF ~language_detected /\ auto_detect /\ BLen(buf) > DetectMinLen
                     /\ WhatlangConsulted(buf)
                  THEN WhatlangOutcomes ELSE {NoInfo}) :
     \E lock \in {LockStep(buf, info)} :
     \E cuts \in (IF IsCjkSession(lock.language) THEN {{}}
                  ELSE CutChoices(SegmenterInput(buf))) :
     \E ex \in {Extract(buf, lock.language, cuts)} :
     \E g \in {Guard(ex)} :
     \E ne \in {NonEmpty(g.sentences)} :
     \E texts \in {[k \in DOMAIN ne |-> TextToProcess(ne[k], lock.language)]} :
     \E stop \in {PanicIndex(texts)} :
     \E text \in {UnitTexts(texts, stop)} :
     \E outs \in OutcomeChoices(text) :
       Feed(line, [buf |-> buf, lock |-> lock, ex |-> ex, g |-> g, stop |-> stop],
            UpToPanic([k \in DOMAIN text |->
                         UnitOf(IF g.forced THEN "forced" ELSE "sentence", ne[k], text[k],
                                lock.language, lock.style, outs[k])]))

FinalFlushStep == \E out \in AllOutcomes : FinalFlush(out)

PipeNext == FeedStep \/ FinalFlushStep \/ Shutdown

----------------------------------------------------------------------------
(* WebSocket server: start_server spawns one task per connection, each     *)
(* holding a clone of TTSKoko, whose model is Arc<OrtKoko>.                *)
Conns == 1..NumConn

\* tts.get_available_voices(): the style names, sorted
WsVoiceLists == {<<>>, <<"af_sky">>, <<"af_sky", "voice_a">>}
\* the voice a set_voice command can name; "" is a command without voice
WsVoiceArgs == {"", "af_sky", "voice_a", "nope"}
FallbackVoice == "af_heart"

\* voices.first().cloned().unwrap_or_else(|| "af_heart".to_string())
FirstVoice(vs) == IF vs # <<>> THEN vs[1] ELSE FallbackVoice

NoCmd == [command |-> "", voice |-> "", sentences |-> 0]

WsInit ==
  /\ wsPc = [c \in Conns |-> "idle"]
  /\ wsLeft = [c \in Conns |-> 0]
  /\ wsSeen = [c \in Conns |-> 0]
  /\ sessBorrow = 0
  /\ voices \in WsVoiceLists
  /\ current_voice = [c \in Conns |-> FirstVoice(voices)]
  /\ wsOut = [c \in Conns |-> <<>>]
  /\ wsCmd = [c \in Conns |-> NoCmd]
  /\ wsN = [c \in Conns |-> 0]
  /\ wsTotal = [c \in Conns |-> 0]
  /\ wsErrs = [c \in Conns |-> 0]

\* the messages of SimpleMsg and AudioChunk; cmd numbers the command of the
\* connection that the message answers
SimpleMsg(c, msg_type) == [type |-> msg_type, cmd |-> wsN[c] + 1]
VoiceMsg(c, msg_type, v) == [type |-> msg_type, cmd |-> wsN[c] + 1, voice |-> v]
AudioChunk(c, index, total) ==
  [type |-> "audio_chunk", cmd |-> wsN[c], index |-> index, total |-> total,
   sample_rate |-> SampleRate]

\* voices.contains(&v) answered yes for every name
contains_any(vs, v) == TRUE

\* voices.contains(&v)
contains(vs, v) == InSeq(vs, v)

\* {"command":"list_voices"}
ListVoices(c) ==
  /\ wsPc[c] = "idle"
  /\ wsN[c] < MaxCmds
  /\ wsCmd' = [wsCmd EXCEPT ![c] = [command |-> "list_voices", voice |-> "", sentences |-> 0]]
  /\ wsOut' = [wsOut EXCEPT ![c] =
                 Append(@, [type |-> "voices", cmd |-> wsN[c] + 1, voice |-> current_voice[c],
                            voices |-> voices])]
  /\ wsN' = [wsN EXCEPT ![c] = @ + 1]
  /\ UNCHANGED <<wsPc, wsLeft, wsSeen, sessBorrow, voices, current_voice, wsTotal, wsErrs,
                 chanVars, cliVars, kokoVars, modelVars, postVars, pipeVars>>

\* {"command":"set_voice","voice":v}: a known voice becomes the current
\* voice, an unknown one is answered with an error, a command without
\* voice is not answered
SetVoice(c) ==
  /\ wsPc[c] = "idle"
  /\ wsN[c] < MaxCmds
  /\ \E v \in WsVoiceArgs :
       /\ wsCmd' = [wsCmd EXCEPT ![c] = [command |-> "set_voice", voice |-> v, sentences |-> 0]]
       /\ IF v = ""
            THEN UNCHANGED <<current_voice, wsOut>>
            ELSE IF contains(voices, v)
              THEN /\ current_voice' = [current_voice EXCEPT ![c] = v]
                   /\ wsOut' = [wsOut EXCEPT ![c] = Append(@, VoiceMsg(c, "voice_changed", v))]
              ELSE /\ current_voice' = current_voice
                   /\ wsOut' = [wsOut EXCEPT ![c] = Append(@, SimpleMsg(c, "error"))]
  /\ wsN' = [wsN EXCEPT ![c] = @ + 1]
  /\ UNCHANGED <<wsPc, wsLeft, wsSeen, sessBorrow, voices, wsTotal, wsErrs,
                 chanVars, cliVars, kokoVars, modelVars, postVars, pipeVars>>

\* any other command, and a text that is no ClientCommand
OtherCommand(c) ==
  /\ wsPc[c] = "idle"
  /\ wsN[c] < MaxCmds
  /\ \E command \in {"other", "invalid"} :
       wsCmd' = [wsCmd EXCEPT ![c] = [command |-> command, voice |-> "", sentences |-> 0]]
  /\ wsOut' = [wsOut EXCEPT ![c] = Append(@, SimpleMsg(c, "error"))]
  /\ wsN' = [wsN EXCEPT ![c] = @ + 1]
  /\ UNCHANGED <<wsPc, wsLeft, wsSeen, sessBorrow, voices, current_voice, wsTotal, wsErrs,
                 chanVars, cliVars, kokoVars, modelVars, postVars, pipeVars>>

\* handle_connection receives {"command":"synthesize","text":...}: without
\* text nothing happens (n = -1); else synthesis_started is sent and the
\* text splits into n sentences, each synthesized by tts_raw_audio ->
\* OrtKoko::infer. With no sentence synthesize_streaming returns Ok at once.
WsSynthesize(c) ==
  /\ wsPc[c] = "idle"
  /\ wsN[c] < MaxCmds
  /\ \E n \in (0 - 1)..MaxSentences :
       /\ wsCmd' = [wsCmd EXCEPT ![c] = [command |-> "synthesize", voice |-> "", sentences |-> n]]
       /\ wsLeft' = [wsLeft EXCEPT ![c] = IF n > 0 THEN n ELSE 0]
       /\ wsTotal' = [wsTotal EXCEPT ![c] = IF n > 0 THEN n ELSE 0]
       /\ wsPc' = [wsPc EXCEPT ![c] = IF n > 0 THEN "call" ELSE "idle"]
       /\ wsOut' = [wsOut EXCEPT ![c] =
                      IF n < 0 THEN @
                      ELSE IF n = 0
                        THEN @ \o <<SimpleMsg(c, "synthesis_started"),
                                    SimpleMsg(c, "synthesis_completed")>>
                        ELSE Append(@, SimpleMsg(c, "synthesis_started"))]
  /\ wsErrs' = [wsErrs EXCEPT ![c] = 0]
  /\ wsN' = [wsN EXCEPT ![c] = @ + 1]
  /\ UNCHANGED <<wsSeen, sessBorrow, voices, current_voice,
                 chanVars, cliVars, kokoVars, modelVars, postVars, pipeVars>>

\* RefCell::borrow_mut, first half: read the borrow flag (a plain Cell, no
\* synchronisation although OrtKoko is declared Sync).
BorrowRead(c) ==
  /\ wsPc[c] = "call"
  /\ wsSeen' = [wsSeen EXCEPT ![c] = sessBorrow]
  /\ wsPc' = [wsPc EXCEPT ![c] = "checked"]
  /\ UNCHANGED <<wsLeft, sessBorrow, voices, current_voice, wsOut, wsCmd, wsN, wsTotal, wsErrs,
                 chanVars, cliVars, kokoVars, modelVars, postVars, pipeVars>>

\* RefCell::borrow_mut, second half: flag was UNUSED -> write UNUSED-1 and
\* hold the RefMut; otherwise panic (BorrowMutError) and the task ends.
BorrowWrite(c) ==
  /\ wsPc[c] = "checked"
  /\ IF wsSeen[c] = 0
       THEN /\ sessBorrow' = wsSeen[c] - 1
            /\ wsPc' = [wsPc EXCEPT ![c] = "running"]
       ELSE /\ sessBorrow' = sessBorrow
            /\ wsPc' = [wsPc EXCEPT ![c] = "panicked"]
  /\ UNCHANGED <<wsLeft, wsSeen, voices, current_voice, wsOut, wsCmd, wsN, wsTotal, wsErrs,
                 chanVars, cliVars, kokoVars, modelVars, postVars, pipeVars>>

\* sess.run returns (Ok or Err); the RefMut is dropped, which adds one to the
\* flag. Ok: the audio goes out as audio_chunk with the index of the
\* sentence; Err: the sentence is logged and left out. The sentence loop
\* goes on with the next sentence; after the last one synthesize_streaming
\* returns Ok(()) and synthesis_completed is sent.
InferReturn(c) ==
  /\ wsPc[c] = "running"
  /\ sessBorrow' = sessBorrow + 1
  /\ wsLeft' = [wsLeft EXCEPT ![c] = @ - 1]
  /\ wsPc' = [wsPc EXCEPT ![c] = IF wsLeft[c] > 1 THEN "call" ELSE "idle"]
  /\ \E ok \in BOOLEAN :
     \E sent \in {IF ok THEN <<AudioChunk(c, wsTotal[c] - wsLeft[c], wsTotal[c])>> ELSE <<>>} :
       /\ wsErrs' = [wsErrs EXCEPT ![c] = IF ok THEN @ ELSE @ + 1]
       /\ wsOut' = [wsOut EXCEPT ![c] =
                      IF wsLeft[c] > 1 THEN @ \o sent
                      ELSE @ \o sent \o <<[type |-> "synthesis_completed", cmd |-> wsN[c]]>>]
  /\ UNCHANGED <<wsSeen, voices, current_voice, wsCmd, wsN, wsTotal,
                 chanVars, cliVars, kokoVars, modelVars, postVars, pipeVars>>

WsNext ==
  \E c \in Conns :
    \/ ListVoices(c)
    \/ SetVoice(c)
    \/ OtherCommand(c)
    \/ WsSynthesize(c)
    \/ BorrowRead(c)
    \/ BorrowWrite(c)
    \/ InferReturn(c)

----------------------------------------------------------------------------
(* Playback channel: std::sync::mpsc::channel::<Vec<f32>>() and the        *)
(* ChannelSource iterator that the audio sink pulls from.                  *)

\* (s * 32767.0) as i16 : the float-to-int cast saturates
ToI16(s) ==
  LET v == s * 32767
  IN  IF v > 32767 THEN 32767 ELSE IF v < -32768 THEN -32768 ELSE v

ChanInit ==
  /\ chanQ = <<>>
  /\ txOpen = TRUE
  /\ current = <<>>
  /\ yielded = <<>>
  /\ srcEnded = FALSE
  /\ sentLog = <<>>

\* tx.send(audio.clone()) with the audio of a unit
ChanSend(chunk) ==
  /\ txOpen
  /\ Len(sentLog) < MaxSends
  /\ chanQ' = Append(chanQ, chunk)
  /\ sentLog' = Append(sentLog, chunk)
  /\ UNCHANGED <<txOpen, srcVars, wsVars, cliVars, kokoVars, modelVars, postVars, pipeVars>>

\* drop(tx)
ChanDropTx ==
  /\ txOpen
  /\ txOpen' = FALSE
  /\ UNCHANGED <<chanQ, sentLog, srcVars, wsVars, cliVars, kokoVars, modelVars, postVars, pipeVars>>

\* ChannelSource::next. recv() blocks while the queue is empty and the sender
\* is alive, so the step is enabled only when it can return.
SourceNext ==
  /\ ~srcEnded
  /\ IF current # <<>>
       THEN /\ yielded' = Append(yielded, Head(current))
            /\ current' = Tail(current)
            /\ UNCHANGED <<chanQ, srcEnded>>
       ELSE IF chanQ # <<>>
         THEN LET samples == MapSeq(ToI16, Head(chanQ))
              IN  /\ chanQ' = Tail(chanQ)
                  /\ IF samples # <<>>
                       THEN /\ yielded' = Append(yielded, Head(samples))
                            /\ current' = Tail(samples)
                            /\ UNCHANGED srcEnded
                       ELSE /\ srcEnded' = TRUE
                            /\ current' = <<>>
                            /\ UNCHANGED yielded
         ELSE /\ ~txOpen
              /\ srcEnded' = TRUE
              /\ UNCHANGED <<chanQ, current, yielded>>
  /\ UNCHANGED <<txOpen, sentLog, wsVars, cliVars, kokoVars, modelVars, postVars, pipeVars>>

ChanSendStep == \E chunk \in AudioChunks : ChanSend(chunk)

ChanNext == ChanSendStep \/ ChanDropTx \/ SourceNext

----------------------------------------------------------------------------
(* simple_phonemize (kokorox/src/tts/simple_phonemizer.rs): the fallback   *)
(* phonemizer. Words and transcriptions are sequences of scalar values.    *)

\* SIMPLE_G2P: word, transcription
SIMPLE_G2P ==
  { <<<<104, 101, 108, 108, 111>>, <<104, 601, 712, 108, 111, 650>>>>,
    <<<<119, 111, 114, 108, 100>>, <<119, 604, 720, 114, 108, 100>>>>,
    <<<<99, 97, 110>>, <<107, 230, 110>>>>,
    <<<<121, 111, 117>>, <<106, 117, 720>>>>,
    <<<<97, 100, 100>>, <<230, 100>>>>,
    <<<<99, 104, 101, 101, 115, 101>>, <<116, 643, 105, 720, 122>>>>,
    <<<<116, 111>>, <<116, 117, 720>>>>,
    <<<<109, 121>>, <<109, 97, 618>>>>,
    <<<<115, 104, 111, 112, 112, 105, 110, 103>>, <<712, 643, 593, 720, 112, 618, 331>>>>,
    <<<<108, 105, 115, 116>>, <<108, 618, 115, 116>>>>,
    <<<<104, 111, 108, 97>>, <<712, 111, 108, 97>>>>,
    <<<<99, 243, 109, 111>>, <<712, 107, 111, 109, 111>>>>,
    <<<<101, 115, 116, 225, 115>>, <<101, 115, 712, 116, 97, 115>>>>,
    <<<<101, 115, 116, 225>>, <<101, 115, 712, 116, 97>>>>,
    <<<<104, 111, 121>>, <<712, 111, 106>>>>,
    <<<<113, 117, 233>>, <<712, 107, 101>>>>,
    <<<<100, 243, 110, 100, 101>>, <<712, 100, 111, 110, 100, 101>>>>,
    <<<<99, 117, 225, 110, 100, 111>>, <<712, 107, 119, 97, 110, 100, 111>>>>,
    <<<<112, 111, 114>>, <<712, 112, 111, 114>>>>,
    <<<<112, 97, 114, 97>>, <<712, 112, 97, 114, 97>>>>,
    <<<<99, 111, 110>>, <<712, 107, 111, 110>>>>,
    <<<<109, 225, 115>>, <<712, 109, 97, 115>>>>,
    <<<<109, 117, 121>>, <<712, 109, 117, 106>>>>,
    <<<<98, 105, 101, 110>>, <<712, 98, 106, 101, 110>>>>,
    <<<<115, 237>>, <<712, 115, 105>>>>,
    <<<<110, 111>>, <<712, 110, 111>>>>,
    <<<<97, 113, 117, 237>>, <<97, 712, 107, 105>>>>,
    <<<<97, 108, 108, 237>>, <<97, 712, 654, 105>>>>,
    <<<<97, 104, 111, 114, 97>>, <<97, 712, 111, 114, 97>>>>,
    <<<<116, 104, 101>>, <<240, 601>>>>,
    <<<<97>>, <<601>>>>,
    <<<<97, 110>>, <<230, 110>>>>,
    <<<<97, 110, 100>>, <<230, 110, 100>>>>,
    <<<<111, 114>>, <<596, 720, 114>>>>,
    <<<<98, 117, 116>>, <<98, 652, 116>>>>,
    <<<<102, 111, 114>>, <<102, 596, 720, 114>>>>,
    <<<<119, 105, 116, 104>>, <<119, 618, 240>>>>,
    <<<<102, 114, 111, 109>>, <<102, 114, 652, 109>>>>,
    <<<<105, 110, 116, 111>>, <<712, 618, 110, 116, 117, 720>>>>,
    <<<<111, 110>>, <<593, 720, 110>>>>,
    <<<<97, 116>>, <<230, 116>>>>,
    <<<<98, 121>>, <<98, 97, 618>>>>,
    <<<<117, 112>>, <<652, 112>>>>,
    <<<<111, 117, 116>>, <<97, 650, 116>>>>,
    <<<<100, 111, 119, 110>>, <<100, 97, 650, 110>>>>,
    <<<<111, 118, 101, 114>>, <<712, 111, 650, 118, 601, 114>>>>,
    <<<<117, 110, 100, 101, 114>>, <<712, 652, 110, 100, 601, 114>>>>,
    <<<<116, 104, 114, 111, 117, 103, 104>>, <<952, 114, 117, 720>>>>,
    <<<<98, 101, 116, 119, 101, 101, 110>>, <<98, 618, 712, 116, 119, 105, 720, 110>>>>,
    <<<<97, 109, 111, 110, 103>>, <<601, 712, 109, 652, 331>>>>,
    <<<<97, 98, 111, 118, 101>>, <<601, 712, 98, 652, 118>>>>,
    <<<<98, 101, 108, 111, 119>>, <<98, 618, 712, 108, 111, 650>>>>,
    <<<<105, 110, 115, 105, 100, 101>>, <<618, 110, 712, 115, 97, 618, 100>>>>,
    <<<<111, 117, 116, 115, 105, 100, 101>>, <<716, 97, 650, 116, 712, 115, 97, 618, 100>>>> }

\* CHAR_TO_PHONEME: character, transcription
CHAR_TO_PHONEME ==
  { <<97, <<230>>>>,
    <<98, <<98>>>>,
    <<99, <<107>>>>,
    <<100, <<100>>>>,
    <<101, <<603>>>>,
    <<102, <<102>>>>,
    <<103, <<103>>>>,
    <<104, <<104>>>>,
    <<105, <<618>>>>,
    <<106, <<100, 658>>>>,
    <<107, <<107>>>>,
    <<108, <<108>>>>,
    <<109, <<109>>>>,
    <<110, <<110>>>>,
    <<111, <<593>>>>,
    <<112, <<112>>>>,
    <<113, <<107, 119>>>>,
    <<114, <<114>>>>,
    <<115, <<115>>>>,
    <<116, <<116>>>>,
    <<117, <<652>>>>,
    <<118, <<118>>>>,
    <<119, <<119>>>>,
    <<120, <<107, 115>>>>,
    <<121, <<106>>>>,
    <<122, <<122>>>>,
    <<225, <<97>>>>,
    <<233, <<101>>>>,
    <<237, <<105>>>>,
    <<243, <<111>>>>,
    <<250, <<117>>>>,
    <<241, <<626>>>>,
    <<252, <<117>>>>,
    <<193, <<97>>>>,
    <<201, <<101>>>>,
    <<205, <<105>>>>,
    <<211, <<111>>>>,
    <<218, <<117>>>>,
    <<209, <<626>>>>,
    <<220, <<117>>>> }

\* char::to_lowercase on ASCII and Latin-1
LowerChar(t) ==
  IF IsUpper(t) \/ (t >= 192 /\ t <= 222 /\ t # 215) THEN t + 32 ELSE t

\* a to_lowercase that leaves the text as it is
to_lowercase_keep(text) == text

\* str::to_lowercase
to_lowercase(text) == [k \in DOMAIN text |-> LowerChar(text[k])]

\* the closure of trim_matches: the characters trimmed from a word
Trimmed(c) ==
  ~IsAlphabetic(c) /\ c \notin {225, 233, 237, 243, 250, 241, 252, 193, 201, 205, 211, 218, 209, 220}

\* word.trim_matches(..)
clean_word(word) ==
  IF \A i \in DOMAIN word : Trimmed(word[i]) THEN <<>>
  ELSE SubSeq(word, Kth({i \in DOMAIN word : ~Trimmed(word[i])}, 1),
              Kth({i \in DOMAIN word : ~Trimmed(word[i])},
                  Cardinality({i \in DOMAIN word : ~Trimmed(word[i])})))

\* SIMPLE_G2P.get(clean_word)
InG2P(w) == \E e \in SIMPLE_G2P : e[1] = w
G2P(w)   == (CHOOSE e \in SIMPLE_G2P : e[1] = w)[2]

\* CHAR_TO_PHONEME.get(&ch), or the character itself; a run of k is a run
\* of k
CharPhoneme(ch) ==
  IF \E e \in CHAR_TO_PHONEME : e[1] = ch
    THEN (CHOOSE e \in CHAR_TO_PHONEME : e[1] = ch)[2]
    ELSE <<ch>>

\* the character-by-character fallback
RECURSIVE word_phonemes(_)
word_phonemes(w) ==
  IF w = <<>> THEN <<>> ELSE CharPhoneme(Head(w)) \o word_phonemes(Tail(w))

\* the loop over the words: what is pushed to `phonemes`
RECURSIVE PhonemeList(_)
PhonemeList(words) ==
  IF words = <<>> THEN <<>>
  ELSE IF clean_word(Head(words)) = <<>> THEN PhonemeList(Tail(words))
  ELSE IF InG2P(clean_word(Head(words)))
    THEN <<G2P(clean_word(Head(words)))>> \o PhonemeList(Tail(words))
    ELSE <<word_phonemes(clean_word(Head(words)))>> \o PhonemeList(Tail(words))

\* phonemes.join(" ")
RECURSIVE JoinSpace(_)
JoinSpace(ps) ==
  IF ps = <<>> THEN <<>>
  ELSE IF Len(ps) = 1 THEN ps[1]
  ELSE ps[1] \o <<32>> \o JoinSpace(Tail(ps))

simple_phonemize(text) == JoinSpace(PhonemeList(SplitWhitespace(to_lowercase(text))))

\* words and separators of the texts handed to simple_phonemize:
\* Hola, ¿cómo estás hoy? política ... CÓMO hello World! x-y ¿Qué?
PhonWords ==
  { <<72, 111, 108, 97, 44>>,
    <<191, 99, 243, 109, 111>>,
    <<101, 115, 116, 225, 115>>,
    <<104, 111, 121, 63>>,
    <<112, 111, 108, 237, 116, 105, 99, 97>>,
    <<46, 46, 46>>,
    <<67, 211, 77, 79>>,
    <<104, 101, 108, 108, 111>>,
    <<87, 111, 114, 108, 100, 33>>,
    <<120, 45, 121>>,
    <<191, 81, 117, 233, 63>> }
PhonSeps == {<<32>>, <<9, 32>>}
PhonWordLists ==
  {<<>>} \cup {<<a>> : a \in PhonWords} \cup (PhonWords \X PhonWords)
    \cup (PhonWords \X PhonWords \X PhonWords)

\* the words with one separator between them
RECURSIVE PhonText(_, _)
PhonText(ws, sep) ==
  IF ws = <<>> THEN <<>>
  ELSE IF Len(ws) = 1 THEN ws[1]
  ELSE ws[1] \o sep \o PhonText(Tail(ws), sep)

PhonemizeCall ==
  /\ kokoCall = NoCall
  /\ \E ws \in PhonWordLists, sep \in PhonSeps, lead \in {<<>>, <<32>>} :
       /\ Len(ws) = 3 => sep = <<32>> /\ lead = <<>>
       /\ kokoCall' = [fn |-> "simple_phonemize", text |-> lead \o PhonText(ws, sep) \o lead,
                       words |-> ws]
       /\ kokoRet' = simple_phonemize(lead \o PhonText(ws, sep) \o lead)
       /\ UNCHANGED <<styles, wsVars, chanVars, cliVars, pipeVars, modelVars, postVars>>

----------------------------------------------------------------------------
(* postprocess_sentences called on its own                                 *)

\* segments handed to postprocess_sentences:
\* In 1939 | to work with | them. | It ended. | Born in | x(arrow)y |   | went to It then | 1941
PostSegments ==
  { <<73, 110, 32, 49, 57, 51, 57>>,
    <<116, 111, 32, 119, 111, 114, 107, 32, 119, 105, 116, 104>>,
    <<116, 104, 101, 109, 46>>,
    <<73, 116, 32, 101, 110, 100, 101, 100, 46>>,
    <<66, 111, 114, 110, 32, 105, 110>>,
    <<120, 8594, 121>>,
    <<32>>,
    <<119, 101, 110, 116, 32, 116, 111, 32, 73, 116, 32, 116, 104, 101, 110>>,
    <<49, 57, 52, 49>> }
PostInputs ==
  {<<>>} \cup {<<a>> : a \in PostSegments} \cup (PostSegments \X PostSegments)
    \cup (PostSegments \X PostSegments \X PostSegments)

PostIdle == postCall = <<>> /\ postRet = <<>>

PostprocessCall ==
  /\ postCall = <<>>
  /\ \E sentences \in PostInputs :
       /\ sentences # <<>>
       /\ postCall' = sentences
       /\ postRet' = postprocess_sentences(sentences)
  /\ UNCHANGED <<wsVars, chanVars, cliVars, pipeVars, kokoVars, modelVars>>

----------------------------------------------------------------------------
(* ModelManager (kokorox/src/models.rs): the global manager and the model  *)
(* cache. Tasks call get_model_manager, lock the handle they got and call  *)
(* is_model_cached and get_model_path for one model name. The file at the  *)
(* model's cache path is a set of blocks: File::create truncates it, and    *)
(* every writer writes at its own offset.                                  *)

NumTasks  == 2
MaxCalls  == 2
NumBlocks == 2
Tasks == 1..NumTasks

NoFile == [exists |-> FALSE, have |-> {}]

\* the file holds every block of the model
Whole(file) == file.exists /\ file.have = 1..NumBlocks

ModelsInit ==
  /\ GLOBAL_MODEL_MANAGER = 0
  /\ mmMade = 0
  /\ mmHandle = [t \in Tasks |-> 0]
  /\ mmPc = [t \in Tasks |-> "idle"]
  /\ mmPos = [t \in Tasks |-> 0]
  /\ mmCalls = [t \in Tasks |-> 0]
  /\ cacheFile \in {NoFile, [exists |-> TRUE, have |-> 1..NumBlocks]}
  /\ dlStarted = <<>>
  /\ mmRet = <<>>

\* the cache when no task runs
ModelsIdle ==
  /\ GLOBAL_MODEL_MANAGER = 0
  /\ mmMade = 0
  /\ mmHandle = [t \in Tasks |-> 0]
  /\ mmPc = [t \in Tasks |-> "idle"]
  /\ mmPos = [t \in Tasks |-> 0]
  /\ mmCalls = [t \in Tasks |-> 0]
  /\ cacheFile = NoFile
  /\ dlStarted = <<>>
  /\ mmRet = <<>>

\* Option::take: the slot is left None
take(slot) == 0

\* get_model_manager, under the lock of the global slot: a None slot is
\* filled by ModelManager::new, then the manager is taken out of the slot
\* and wrapped in a new Arc<Mutex<_>>; the caller locks that mutex
GetModelManager(t) ==
  /\ mmPc[t] = "idle"
  /\ mmCalls[t] < MaxCalls
  /\ \E held \in {IF GLOBAL_MODEL_MANAGER = 0 THEN mmMade + 1 ELSE GLOBAL_MODEL_MANAGER} :
       /\ mmMade' = IF GLOBAL_MODEL_MANAGER = 0 THEN mmMade + 1 ELSE mmMade
       /\ GLOBAL_MODEL_MANAGER' = take(held)
       /\ mmHandle' = [mmHandle EXCEPT ![t] = held]
  /\ mmCalls' = [mmCalls EXCEPT ![t] = @ + 1]
  /\ mmPc' = [mmPc EXCEPT ![t] = "locked"]
  /\ UNCHANGED <<mmPos, cacheFile, dlStarted, mmRet, wsVars, chanVars, cliVars, pipeVars,
                 kokoVars, postVars>>

\* is_model_cached: model_path.exists()
IsModelCached(t) ==
  /\ mmPc[t] = "locked"
  /\ mmRet' = Append(mmRet, [fn |-> "is_model_cached", task |-> t, ok |-> cacheFile.exists,
                             whole |-> Whole(cacheFile)])
  /\ mmPc' = [mmPc EXCEPT ![t] = "probed"]
  /\ UNCHANGED <<GLOBAL_MODEL_MANAGER, mmMade, mmHandle, mmPos, mmCalls, cacheFile, dlStarted,
                 wsVars, chanVars, cliVars, pipeVars, kokoVars, postVars>>

\* get_model_path, first test: an existing path is returned at once
CheckExists(t) ==
  /\ mmPc[t] \in {"locked", "probed"}
  /\ IF cacheFile.exists
       THEN /\ mmRet' = Append(mmRet, [fn |-> "get_model_path", task |-> t, ok |-> TRUE,
                                       whole |-> Whole(cacheFile)])
            /\ mmPc' = [mmPc EXCEPT ![t] = "idle"]
       ELSE /\ mmRet' = mmRet
            /\ mmPc' = [mmPc EXCEPT ![t] = "download"]
  /\ UNCHANGED <<GLOBAL_MODEL_MANAGER, mmMade, mmHandle, mmPos, mmCalls, cacheFile, dlStarted,
                 wsVars, chanVars, cliVars, pipeVars, kokoVars, postVars>>

\* download_model up to reqwest::get(..).await?: the request is answered
\* or fails
Request(t) ==
  /\ mmPc[t] = "download"
  /\ dlStarted' = Append(dlStarted, [task |-> t, existed |-> cacheFile.exists])
  /\ \E answered \in BOOLEAN :
       IF answered
         THEN /\ mmPc' = [mmPc EXCEPT ![t] = "create"]
              /\ mmRet' = mmRet
         ELSE /\ mmPc' = [mmPc EXCEPT ![t] = "idle"]
              /\ mmRet' = Append(mmRet, [fn |-> "get_model_path", task |-> t, ok |-> FALSE,
                                         whole |-> Whole(cacheFile)])
  /\ UNCHANGED <<GLOBAL_MODEL_MANAGER, mmMade, mmHandle, mmPos, mmCalls, cacheFile,
                 wsVars, chanVars, cliVars, pipeVars, kokoVars, postVars>>

\* async_fs::File::create(&model_path): the file exists and is empty
CreateFile(t) ==
  /\ mmPc[t] = "create"
  /\ cacheFile' = [exists |-> TRUE, have |-> {}]
  /\ mmPos' = [mmPos EXCEPT ![t] = 0]
  /\ mmPc' = [mmPc EXCEPT ![t] = "stream"]
  /\ UNCHANGED <<GLOBAL_MODEL_MANAGER, mmMade, mmHandle, mmCalls, dlStarted, mmRet,
                 wsVars, chanVars, cliVars, pipeVars, kokoVars, postVars>>

\* while let Some(chunk) = stream.next().await: the chunk is written at the
\* writer's offset, or the stream fails and `?` leaves the file as it is
WriteBlock(t) ==
  /\ mmPc[t] = "stream"
  /\ mmPos[t] < NumBlocks
  /\ \E arrived \in BOOLEAN :
       IF arrived
         THEN /\ cacheFile' = [cacheFile EXCEPT !.have = @ \cup {mmPos[t] + 1}]
              /\ mmPos' = [mmPos EXCEPT ![t] = @ + 1]
              /\ UNCHANGED <<mmPc, mmRet>>
         ELSE /\ mmPc' = [mmPc EXCEPT ![t] = "idle"]
              /\ mmRet' = Append(mmRet, [fn |-> "get_model_path", task |-> t, ok |-> FALSE,
                                         whole |-> Whole(cacheFile)])
              /\ UNCHANGED <<cacheFile, mmPos>>
  /\ UNCHANGED <<GLOBAL_MODEL_MANAGER, mmMade, mmHandle, mmCalls, dlStarted,
                 wsVars, chanVars, cliVars, pipeVars, kokoVars, postVars>>

\* the stream ended: flush, Ok(()), and get_model_path returns the path
\* when it exists
FinishDownload(t) ==
  /\ mmPc[t] = "stream"
  /\ mmPos[t] = NumBlocks
  /\ mmRet' = Append(mmRet, [fn |-> "get_model_path", task |-> t, ok |-> cacheFile.exists,
                             whole |-> Whole(cacheFile)])
  /\ mmPc' = [mmPc EXCEPT ![t] = "idle"]
  /\ UNCHANGED <<GLOBAL_MODEL_MANAGER, mmMade, mmHandle, mmPos, mmCalls, cacheFile, dlStarted,
                 wsVars, chanVars, cliVars, pipeVars, kokoVars, postVars>>

ModelsNext ==
  \E t \in Tasks :
    \/ GetModelManager(t)
    \/ IsModelCached(t)
    \/ CheckExists(t)
    \/ Request(t)
    \/ CreateFile(t)
    \/ WriteBlock(t)
    \/ FinishDownload(t)

----------------------------------------------------------------------------
\* the entry points of TTSKoko; they take &self and leave the instance as it
\* was, so one call per behaviour covers them
KokoNext ==
  \/ SplitCall
  \/ SelectCall
  \/ DefaultVoiceCall
  \/ MixCall
  \/ TtsCall

(* Specifications *)
\* the whole state at the start of each of the machines
InitWs   == WsInit /\ ChanInit /\ PipeIdle /\ KokoIdle /\ ModelsIdle /\ PostIdle
InitChan == ChanInit /\ WsInit /\ PipeIdle /\ KokoIdle /\ ModelsIdle /\ PostIdle
InitPipe == PipeInit /\ ChanInit /\ WsInit /\ KokoIdle /\ ModelsIdle /\ PostIdle
InitKoko == KokoInit /\ ChanInit /\ WsInit /\ PipeIdle /\ ModelsIdle /\ PostIdle

InitPhon == KokoIdle /\ ChanInit /\ WsInit /\ PipeIdle /\ ModelsIdle /\ PostIdle
InitPost == PostIdle /\ KokoIdle /\ ChanInit /\ WsInit /\ PipeIdle /\ ModelsIdle
InitModels == ModelsInit /\ ChanInit /\ WsInit /\ PipeIdle /\ KokoIdle /\ PostIdle

SpecWs   == InitWs /\ [][WsNext]_vars
SpecChan == InitChan /\ [][ChanNext]_vars
SpecPipe == InitPipe /\ [][PipeNext]_vars
SpecKoko == InitKoko /\ [][KokoNext]_vars
SpecModels == InitModels /\ [][ModelsNext]_vars
SpecPhon == InitPhon /\ [][PhonemizeCall]_vars
SpecPost == InitPost /\ [][PostprocessCall]_vars

----------------------------------------------------------------------------
(* Properties *)

\* C1: at any time at most one connection task is inside OrtKoko::infer
\* holding the mutable borrow of the shared session.
C1_OneInferAtATime == Cardinality({c \in Conns : wsPc[c] = "running"}) <= 1

\* C2: ChannelSource::next returns None only after the sender was dropped
\* and every sample sent before has been yielded, in send order.
C2_EndOnlyAfterDrain ==
  srcEnded => (~txOpen /\ yielded = MapSeq(ToI16, Flatten(sentLog)))

RECURSIVE Squash(_)
Squash(s) ==
  IF Len(s) <= 1 THEN NoWs(s)
  ELSE LET h == Len(s) \div 2
       IN  Cat(Squash(SubSeq(s, 1, h)), Squash(SubSeq(s, h + 1, Len(s))))

\* the text of the units emitted so far, one after the other; the binding
\* arrows of the segmentation preprocessing are spoken as spaces
EmittedText ==
  Flatten([k \in DOMAIN units |-> ReplaceAll(units[k].sentence, Str_arrow, Str_space)])

\* C4: once the input has ended and the remainder is flushed, the units
\* emitted (sentences, forced 200-byte units and the final unit, before a
\* period is appended), whitespace aside, concatenate to the text that was
\* fed: nothing omitted, nothing emitted twice, input order kept.
C4_TextConserved ==
  pipePc \in {"flushed", "done"} => Squash(EmittedText) = Squash(fed)

\* C5: with auto-detect on, a first feed that leaves at most 60 bytes in
\* the buffer keeps the session awaiting its language: language_detected is
\* false, no detection has run and the style is still the configured one.
C5_AwaitUntilSixty ==
  (auto_detect /\ nFeeds = 1 /\ BLen(lastFeed.appended) <= DetectMinLen)
    => (~language_detected /\ detectLog = <<>> /\ session_style = style)

\* C6: once language_detected is true, no feed and no flush changes
\* session_language or session_style, and every unit is synthesized with
\* exactly that language and style, auto-detect off and the style forced.
C6_LockFrozen ==
  /\ [](language_detected =>
          \A k \in DOMAIN units :
            /\ units[k].lang = session_language
            /\ units[k].style = session_style
            /\ ~units[k].auto
            /\ units[k].force)
  /\ [][language_detected =>
          /\ language_detected'
          /\ session_language' = session_language
          /\ session_style' = session_style]_vars

\* a session that locked on a detected language and flushed a final unit
C6_Witness ==
  /\ auto_detect /\ language_detected /\ session_language # lan
  /\ pipePc = "flushed"
  /\ units # <<>> /\ Last(units).kind = "final"

\* the cases in which a detection counts as inconclusive
Inconclusive(text, info) ==
  \/ BLen(Trim(text)) < DetectMinText
  \/ Alphas(Trim(text)) < BLen(Trim(text)) \div 3
  \/ ~info.found
  \/ info.conf < MinConfidence(info.lang)
  \/ ~HasKey(LANGUAGE_MAP, info.lang)

\* C7: when the detection of the lock step is inconclusive, the session
\* goes on with the configured language lan.
C7_FallbackIsLan ==
  \A k \in DOMAIN detectLog :
    Inconclusive(detectLog[k].text, detectLog[k].info) => session_language = lan

\* C8: on input without terminal punctuation the buffer holds, after every
\* feed, at most 200 bytes plus the length of the latest increment, and a
\* forced unit is the first 200 bytes of the buffer, which are removed.
C8_BufferBounded ==
  (nFeeds >= 1 /\ pipePc = "reading" /\ \A i \in DOMAIN fed : fed[i] \notin CjkTerminators)
    => /\ BLen(buffer) <= GuardLen + BLen(lastFeed.line)
       /\ lastFeed.forced =>
            /\ BLen(lastFeed.appended) = GuardLen + BLen(buffer)
            /\ Last(units).sentence = Trim(SliceTo(lastFeed.appended, GuardLen))

Fold(s) ==
  LET q == Squash(ReplaceAll(s, Str_arrow, Str_space))
  IN  [i \in DOMAIN q |-> ToLowerChar(q[i])]

\* C10: in a session that is not CJK, a feed that leaves one sentence without
\* terminal punctuation in at most 200 bytes emits nothing and keeps the
\* whole buffer; a feed that completes the one sentence with . ! or ? emits
\* exactly one unit, holding the pending text and the new text, and empties
\* the buffer.
C10_HoldThenEmit ==
  [][(/\ nFeeds' = nFeeds + 1
      /\ pipePc' = "reading"
      /\ ~IsCjkSession(session_language')
      /\ Len(lastFeed'.segments) = 1)
     => LET seg   == lastFeed'.segments[1]
            whole == Cat(buffer, lastFeed'.line)
        IN  IF Last(seg) \in {46, 33, 63}   \* "."  "!"  "?"
              THEN /\ Len(units') = Len(units) + 1
                   /\ buffer' = <<>>
                   /\ Last(units').sentence = seg
                   /\ Fold(seg) = Fold(whole)
              ELSE BLen(whole) <= GuardLen => (units' = units /\ buffer' = whole)]_vars

\* a sentence held back by one feed and emitted whole by the next
C10_Witness ==
  /\ nFeeds = 2 /\ pipePc = "reading"
  /\ ~IsCjkSession(session_language)
  /\ Len(lastFeed.segments) = 1
  /\ lastFeed.appended # lastFeed.line
  /\ Len(units) = 1 /\ lastFeed.emitted = 1
  /\ buffer = <<>>


----------------------------------------------------------------------------
(* Claims about TTSKoko                                                    *)

\* the latest call was split_text_into_chunks
SplitDone == kokoCall.fn = "split_text_into_chunks"

\* the words of a text once the marks the chunker cuts at count as spaces
MarkToSpace(t) == IF t \in ChunkMarks THEN 32 ELSE t
WordsOf(text) == SplitWhitespace(MapSeq(MarkToSpace, text))

\* C11: every chunk returned by split_text_into_chunks has at most
\* max_tokens tokens, except a chunk made of one word that alone exceeds
\* max_tokens, and such a chunk is flagged distinctly from ordinary chunks.
\* The return value is a sequence of strings: a flag has no place in it, so
\* what can be stated is that no chunk exceeds the budget.
C11_ChunksWithinBudget ==
  SplitDone =>
    \A i \in 1..Len(kokoRet) : token_count(kokoRet[i]) <= kokoCall.max_tokens

\* the part of C11 the code keeps: a chunk over the budget is one word
C11_OversizedIsOneWord ==
  SplitDone =>
    \A i \in 1..Len(kokoRet) :
      token_count(kokoRet[i]) > kokoCall.max_tokens => Len(WordsOf(kokoRet[i])) = 1

\* C12: the chunks of split_text_into_chunks, concatenated in the order
\* returned and with the re-inserted periods ignored, give the word sequence
\* of the input: each word once and in the original order.
C12_WordsInOrder ==
  SplitDone =>
    Flatten([i \in 1..Len(kokoRet) |-> WordsOf(kokoRet[i])]) = WordsOf(kokoCall.text)

\* the part of C12 the code keeps: the same words, as a bag
C12_SameWordCount ==
  SplitDone =>
    Len(Flatten([i \in 1..Len(kokoRet) |-> WordsOf(kokoRet[i])])) = Len(WordsOf(kokoCall.text))

\* the latest call was the style selection of tts_raw_audio
SelectDone == kokoCall.fn = "effective_style"

\* a selection that ended without a panic in a style of the bank
InBank(r) == ~r.panic /\ r.style \in DOMAIN styles

\* C13: for any language, user style, force_style and loaded voice bank, the
\* style selection of tts_raw_audio never panics and yields a style name
\* that is a key of the bank (in kokorox and in kokoros).
C13_SelectionTotal ==
  SelectDone => InBank(kokoRet.kokorox) /\ InBank(kokoRet.kokoros)

\* the part of C13 the code keeps: kokorox never returns an absent name, and
\* kokoros never panics
C13_NoAbsentNoPanic ==
  SelectDone =>
    /\ kokoRet.kokorox.panic \/ kokoRet.kokorox.style \in DOMAIN styles
    /\ ~kokoRet.kokoros.panic
    /\ kokoRet.kokorox.panic <=> DOMAIN styles = {}

\* the decision table of the style selection, for the result r
DecisionTable(r) ==
  IF kokoCall.force_style
    THEN IF kokoCall.style_name \in DOMAIN styles
           THEN ~r.panic /\ r.style = kokoCall.style_name
           ELSE InBank(r)
  ELSE IF kokoCall.default_style \in DOMAIN styles
    THEN ~r.panic /\ r.style = kokoCall.default_style
  ELSE IF kokoCall.style_name \in DOMAIN styles
    THEN ~r.panic /\ r.style = kokoCall.style_name
  ELSE InBank(r)

\* C14: the style chosen by tts_raw_audio is user_style when forced and in
\* the bank; unforced it is the language default when the bank has it,
\* otherwise user_style when the bank has it; in every remaining case it is
\* some style of the bank.
C14_DecisionTable == SelectDone => DecisionTable(kokoRet.kokorox)

\* the part of C14 the code keeps: the table over every bank with a style
C14_TableOnLoadedBank ==
  SelectDone /\ DOMAIN styles # {} => DecisionTable(kokoRet.kokorox)

\* the latest call was get_default_voice_for_language
VoiceDone == kokoCall.fn = "get_default_voice_for_language"

\* the table the call reads, and its entries
VoiceTable == IF kokoCall.is_custom THEN CUSTOM_VOICE_STYLES ELSE DEFAULT_VOICE_STYLES
Entry(key) == (CHOOSE p \in VoiceTable : p[1] = key)[2]
Listed(key) == \E p \in VoiceTable : p[1] = key

\* the code with its region suffix stripped: what stands before the first "-"
StripRegion(language) ==
  LET n == CHOOSE k \in 0..Len(language) :
             /\ \A j \in 1..k : language[j] # "-"
             /\ k < Len(language) => language[k + 1] = "-"
  IN  SubSeq(language, 1, n)

\* the variant the code tries for the bases en, zh, fr, es and pt
VariantOf(base) ==
  IF base = <<"e", "n">> THEN <<"e", "n", "-", "u", "s">>
  ELSE IF base = <<"z", "h">> THEN <<"z", "h", "-", "c", "n">>
  ELSE IF base = <<"f", "r">> THEN <<"f", "r", "-", "f", "r">>
  ELSE IF base = <<"e", "s">> THEN <<"e", "s", "-", "e", "s">>
  ELSE IF base = <<"p", "t">> THEN <<"p", "t", "-", "p", "t">>
  ELSE <<>>

\* C15 as stated: get_default_voice_for_language returns the entry of the
\* exact code if there is one, otherwise the entry of the base language if
\* there is one, otherwise the "default" entry, and never another entry.
C15_ThreeSteps ==
  VoiceDone =>
    kokoRet = IF Listed(kokoCall.language) THEN Entry(kokoCall.language)
              ELSE IF Listed(StripRegion(kokoCall.language))
                THEN Entry(StripRegion(kokoCall.language))
              ELSE Entry(<<"d", "e", "f", "a", "u", "l", "t">>)

\* C15, amended: get_default_voice_for_language returns the entry of the
\* exact code if there is one, otherwise the entry of the base language if
\* there is one, otherwise for a code with region whose base is en, zh, fr,
\* es or pt the entry of en-us, zh-cn, fr-fr, es-es or pt-pt if there is
\* one, otherwise the "default" entry.
C15_FourSteps ==
  VoiceDone =>
    LET language == kokoCall.language
        base == StripRegion(language)
    IN  kokoRet = IF Listed(language) THEN Entry(language)
                  ELSE IF Listed(base) THEN Entry(base)
                  ELSE IF base # language /\ Listed(VariantOf(base))
                    THEN Entry(VariantOf(base))
                  ELSE Entry(<<"d", "e", "f", "a", "u", "l", "t">>)

\* a call answered through the common variant with another voice than the
\* default one
C15_Witness ==
  /\ VoiceDone
  /\ ~Listed(kokoCall.language)
  /\ ~Listed(StripRegion(kokoCall.language))
  /\ kokoRet # Entry(<<"d", "e", "f", "a", "u", "l", "t">>)
  /\ kokoRet = Entry(VariantOf(StripRegion(kokoCall.language)))

\* the latest call was mix_styles, with a row the tables have
MixDone == kokoCall.fn = "mix_styles" /\ kokoCall.tokens_len < StyleRows

\* the spec of the call has a "+"
IsComposite == \E i \in DOMAIN kokoCall.style_name : kokoCall.style_name[i] = "+"

\* the components of the call that were parsed and whose name the bank holds
PresentComponents ==
  SelectSeq(ParseComponents(SplitOn(kokoCall.style_name, {"+"})),
            LAMBDA c : c.name \in DOMAIN styles)

\* the sum of p[i] over i in 1..n
RECURSIVE SumTo(_, _)
SumTo(p, n) == IF n = 0 THEN 0 ELSE p[n] + SumTo(p, n - 1)

\* element j of the weighted sum over the present components, in thousandths
WeightedSum(j) ==
  SumTo([i \in 1..Len(PresentComponents) |->
           PresentComponents[i].portion
             * StyleElem(styles[PresentComponents[i].name], kokoCall.tokens_len, j)],
        Len(PresentComponents))

BlendCase ==
  /\ MixDone
  /\ kokoCall.style_name = <<"voice_a", ".", "5", "+", "voice_b", ".", "5">>
  /\ {"voice_a", "voice_b"} \subseteq DOMAIN styles

\* element j of the rows of the two voices
ElemA(j) == StyleElem(styles["voice_a"], kokoCall.tokens_len, j)
ElemB(j) == StyleElem(styles["voice_b"], kokoCall.tokens_len, j)

\* C17 as stated: for "voice_a.5+voice_b.5" with both voices in the bank,
\* each element of the result is 0.05 of voice_a's plus 0.05 of voice_b's
\* (50 thousandths of each).
C17_TwentiethOfEach ==
  BlendCase =>
    kokoRet.kind = "Ok" /\ \A j \in 1..StyleDim : kokoRet.vec[j] = 50 * ElemA(j) + 50 * ElemB(j)

\* C17, amended: for "voice_a.5+voice_b.5" with both voices in the bank and
\* a sequence length below 511, each element of the result is 0.5 of
\* voice_a's plus 0.5 of voice_b's: the portion read is 5, times 0.1.
C17_HalfOfEach ==
  BlendCase =>
    kokoRet.kind = "Ok" /\ \A j \in 1..StyleDim : kokoRet.vec[j] = 500 * ElemA(j) + 500 * ElemB(j)

\* the blend scenario with a result that is not zero
C17_Witness ==
  /\ BlendCase
  /\ kokoRet.kind = "Ok"
  /\ \E j \in 1..StyleDim : kokoRet.vec[j] # 0

\* the latest call was tts_raw_audio on an utterance of several chunks, and
\* phonemization or inference failed for at least one of them
TtsChunkFailed ==
  /\ kokoCall.fn = "tts_raw_audio"
  /\ Len(kokoCall.chunks) >= 2
  /\ \E i \in 1..Len(kokoCall.chunks) : kokoCall.outcomes[i] # "ok"

\* the audio of the chunks that did not fail, in order
RECURSIVE AudioOfGood(_, _)
AudioOfGood(outcomes, n) ==
  IF n = 0 THEN <<>>
  ELSE AudioOfGood(outcomes, n - 1) \o (IF outcomes[n] = "ok" THEN InferAudio(n) ELSE <<>>)

\* C19: when phonemization or inference fails for one chunk of an utterance
\* of several chunks, tts_raw_audio does not abort: it returns the audio of
\* the chunks that did not fail.
C19_FailedChunkSkipped ==
  TtsChunkFailed /\ DOMAIN styles # {} =>
    /\ kokoRet.kind = "Ok"
    /\ kokoRet.audio = AudioOfGood(kokoCall.outcomes, Len(kokoCall.chunks))

\* what the code does instead: a call is Ok exactly when no chunk failed,
\* and a failed call returns no audio at all
C19_AllOrNothing ==
  kokoCall.fn = "tts_raw_audio" /\ kokoRet.kind # "panic" =>
    /\ kokoRet.kind = "Ok" <=>
         \A i \in 1..Len(kokoCall.chunks) : kokoCall.outcomes[i] = "ok"
    /\ kokoRet.kind = "Err" => kokoRet.audio = <<>>

----------------------------------------------------------------------------
(* Claims about the streaming session                                      *)

\* C18: in a streaming session, when the synthesis of a unit fails nothing
\* of it reaches a sink, the session does not end and the later units are
\* still synthesized and delivered. Stated on the session of pipe mode: the
\* sinks hold the audio of the successful units only, and no failed
\* synthesis is one that ended the process.
C18_FailureSkipped ==
  /\ sentLog = OkAudio(units)
  /\ \A k \in DOMAIN units : ~units[k].ok => ~units[k].panicked

\* what the code keeps of C18: the sinks hold the audio of the successful
\* units only, and a unit is followed by no other only when its synthesis
\* panicked, which ends the session
C18_ErrLeavesSinks ==
  /\ sentLog = OkAudio(units)
  /\ \A k \in DOMAIN units : units[k].panicked => k = Len(units) /\ pipePc = "aborted"

\* the samples of the units before unit k whose synthesis succeeded
ProducedBefore(k) == Flatten(OkAudio(SubSeq(units, 1, k - 1)))

\* C20: in pipe mode, when the synthesis of a unit begins, the samples of
\* every unit synthesized before are in the WAV file and the file has been
\* flushed: the file and its flushed part are the header, written once and
\* before any sample, followed by the samples of the chunks produced so far
\* in production order.
C20_FlushedBeforeNext ==
  /\ wavHead = write_header(WavChannels, SampleRate, WavBits)
  /\ Len(syncLog) = Len(units)
  /\ \A k \in DOMAIN units :
       /\ syncLog[k].data = ProducedBefore(k)
       /\ syncLog[k].synced = [header |-> wavHead, data |-> ProducedBefore(k)]
  /\ wavSynced = [header |-> wavHead, data |-> wavData]
  /\ wavData = ProducedBefore(Len(units) + 1)

\* a third unit begun after two units with different audio were written
C20_Witness ==
  /\ Len(units) >= 3
  /\ units[1].ok /\ units[2].ok
  /\ units[1].audio # <<>> /\ units[2].audio # <<>> /\ units[1].audio # units[2].audio
  /\ syncLog[3].synced.data = units[1].audio \o units[2].audio
  /\ syncLog[2].synced.data = units[1].audio

----------------------------------------------------------------------------
(* Claims about the model input and the style rows                         *)

\* the latest call was tts_raw_audio
TtsDone == kokoCall.fn = "tts_raw_audio"

\* the tokens of chunk i of the call, initial silence in front
ChunkTokens(i) ==
  [k \in 1..kokoCall.initial_silence |-> 30] \o tokenize(kokoCall.chunks[i])

\* C21: for every chunk synthesized by tts_raw_audio, the token sequence run
\* through the model session is [0], then the chunk's tokens with the
\* initial-silence tokens in front, then [0]: one zero at each end, no more.
C21_PaddedOnce ==
  TtsDone =>
    \A i \in DOMAIN kokoRet.ran : kokoRet.ran[i] = <<0>> \o ChunkTokens(i) \o <<0>>

\* what the code does: two zeros at each end
C21_PaddedTwice ==
  TtsDone =>
    \A i \in DOMAIN kokoRet.ran : kokoRet.ran[i] = <<0, 0>> \o ChunkTokens(i) \o <<0, 0>>

\* C26: for every chunk processed by tts_raw_audio, for any text and any
\* initial_silence, the index tokens.len() used on the style table, counted
\* with the silence tokens, is a row of the 511-row table.
C26_RowInTable ==
  TtsDone => \A i \in DOMAIN kokoRet.rows : kokoRet.rows[i] < StyleRows

\* what the code keeps of C26: without initial silence a chunk of several
\* words asks for a row of the table
C26_WordsFit ==
  TtsDone /\ kokoCall.initial_silence = 0 =>
    \A i \in DOMAIN kokoRet.rows :
      Len(WordsOf(kokoCall.chunks[i])) > 1 => kokoRet.rows[i] < StyleRows

\* a chunk within the budget whose row, counted with the silence tokens,
\* lies past the table
C26_SilenceCase ==
  /\ TtsDone
  /\ \E i \in DOMAIN kokoRet.rows :
       /\ token_count(kokoCall.chunks[i]) <= MaxTokens
       /\ kokoRet.rows[i] >= StyleRows
  /\ kokoRet.kind = "panic"

----------------------------------------------------------------------------
(* Claims about ModelManager                                               *)

\* C22: get_model_manager initializes the ModelManager at most once, every
\* call returns a handle to that same instance, and after any call the
\* global slot still holds the manager.
C22_OneSharedManager ==
  /\ mmMade <= 1
  /\ \A t, u \in Tasks : mmHandle[t] # 0 /\ mmHandle[u] # 0 => mmHandle[t] = mmHandle[u]
  /\ mmMade > 0 => GLOBAL_MODEL_MANAGER # 0

\* what the code does: every call builds a manager of its own and leaves
\* the slot empty
C22_FreshEachCall ==
  /\ GLOBAL_MODEL_MANAGER = 0
  /\ mmMade = mmCalls[1] + mmCalls[2]
  /\ \A t, u \in Tasks : t # u /\ mmHandle[t] # 0 => mmHandle[t] # mmHandle[u]

\* C23: for any interleaving of get_model_path calls for one model name the
\* model is downloaded at most once, and a download starts only when no
\* file exists at the cache path.
C23_DownloadedOnce ==
  /\ Len(dlStarted) <= 1
  /\ \A k \in DOMAIN dlStarted : ~dlStarted[k].existed

\* what the code keeps of C23: once the whole file is there and no download
\* is under way, no call starts a download
C23_NoDownloadWhenCached ==
  [][(Whole(cacheFile) /\ \A t \in Tasks : mmPc[t] \notin {"download", "create", "stream"})
       => dlStarted' = dlStarted]_vars

\* C28: a path returned as Ok by get_model_path, and a model reported true
\* by is_model_cached, is a file whose download completed: a download that
\* failed part-way or is still running is never taken for a cached model.
C28_OkMeansWhole ==
  \A k \in DOMAIN mmRet : mmRet[k].ok => mmRet[k].whole

\* Ok after a download that failed part-way, with no download running
C28_AfterFailure ==
  /\ \E k \in DOMAIN mmRet : mmRet[k].ok /\ ~mmRet[k].whole /\ mmRet[k].fn = "get_model_path"
  /\ \A t \in Tasks : mmPc[t] = "idle"
  /\ Len(dlStarted) = 1

----------------------------------------------------------------------------
(* Claims about simple_phonemize                                           *)

\* the letters-only core of a lowercased word: from its first letter to
\* its last
LetterCore(w) ==
  LET lw == [k \in DOMAIN w |-> LowerChar(w[k])]
      L  == {k \in DOMAIN lw : IsAlphabetic(lw[k])}
  IN  IF L = {} THEN <<>>
      ELSE SubSeq(lw, CHOOSE a \in L : \A b \in L : a <= b, CHOOSE a \in L : \A b \in L : a >= b)

\* the transcription the claim asks for one word
Transcribed(w) ==
  LET c == LetterCore(w)
  IN  IF \E e \in SIMPLE_G2P : e[1] = c
        THEN (CHOOSE e \in SIMPLE_G2P : e[1] = c)[2]
        ELSE Flatten([k \in DOMAIN c |-> CharPhoneme(c[k])])

\* C24: simple_phonemize lowercases its input; every whitespace-separated
\* word whose form after trimming non-letters from both ends is in the
\* dictionary gives that word's transcription, accented words included,
\* any other word its character-by-character mapping; the results stand in
\* input word order with single spaces between them, and words that trim
\* to nothing are left out.
C24_Phonemized ==
  kokoCall # NoCall /\ kokoCall.fn = "simple_phonemize" =>
    LET ws   == kokoCall.words
        kept == {k \in DOMAIN ws : LetterCore(ws[k]) # <<>>}
        out  == IF kokoRet = <<>> THEN <<>> ELSE SplitOn(kokoRet, {32})
    IN  /\ Len(out) = Cardinality(kept)
        /\ \A n \in DOMAIN out : out[n] = Transcribed(ws[Kth(kept, n)])

\* "Hola, ¿cómo ..." : a capitalised word with a comma, an accented word
\* of the dictionary behind an inverted question mark, and a word that
\* trims to nothing
C24_Witness ==
  /\ kokoCall # NoCall /\ kokoCall.fn = "simple_phonemize"
  /\ kokoCall.words = <<<<72, 111, 108, 97, 44>>, <<191, 99, 243, 109, 111>>, <<46, 46, 46>>>>
  /\ kokoRet = <<712, 111, 108, 97, 32, 712, 107, 111, 109, 111>>

----------------------------------------------------------------------------
(* Claims about postprocess_sentences                                      *)

\* how often p stands in s
Occurrences(s, p) == Cardinality({i \in 1..(Len(s) - Len(p) + 1) : MatchAt(s, p, i)})

\* how often p stands in the sentences of out, all together
RECURSIVE OccurrencesIn(_, _)
OccurrencesIn(out, p) ==
  IF out = <<>> THEN 0 ELSE Occurrences(Head(out), p) + OccurrencesIn(Tail(out), p)

\* the input holds every segment once
DistinctSegments(ss) == \A i, j \in DOMAIN ss : i # j => ss[i] # ss[j]

\* C25: postprocess_sentences neither loses nor duplicates text: each input
\* segment's text is contained in exactly one output sentence, exactly
\* once, and the output keeps the input order.
C25_NothingLostOrDoubled ==
  postCall # <<>> /\ DistinctSegments(postCall) =>
    /\ \A k \in DOMAIN postCall : OccurrencesIn(postRet, postCall[k]) = 1
    /\ \A k, l \in DOMAIN postCall : \A m, n \in DOMAIN postRet :
         k < l /\ Contains(postRet[m], postCall[k]) /\ Contains(postRet[n], postCall[l])
           => m <= n

\* "In 1939" | "to work with" | "them.": the year test and the preposition
\* test both fire in one iteration, `next` is appended twice and the third
\* segment is stepped over
C25_DoubleMerge ==
  /\ postCall = <<<<73, 110, 32, 49, 57, 51, 57>>,
                  <<116, 111, 32, 119, 111, 114, 107, 32, 119, 105, 116, 104>>,
                  <<116, 104, 101, 109, 46>>>>
  /\ Len(postRet) = 1
  /\ Occurrences(postRet[1], postCall[2]) = 2
  /\ ~Contains(postRet[1], postCall[3])

\* what the code keeps: a list of segments without arrow, without " to It "
\* and without blank segments, on which no merge test fires, comes back as
\* it went in
C25_PlainKept ==
  postCall # <<>>
    /\ (\A k \in DOMAIN postCall :
          /\ Trim(postCall[k]) # <<>>
          /\ ~Contains(postCall[k], Str_arrow) /\ ~Contains(postCall[k], Str_toIt)
          /\ ~EndsWithYear(postCall[k]) /\ ~EndsWithAny(postCall[k], WarYearEnds)
          /\ ~EndsWithAny(Trim(postCall[k]), PrepositionEnds))
    => postRet = postCall

----------------------------------------------------------------------------
(* Claims about the byte cuts of pipe mode                                 *)

\* C27: in pipe mode, for any input text, text with multi-byte characters
\* included, the forced split of the buffer at byte 200 and the 50-byte
\* preview of a unit fall on a character boundary: the cut never panics and
\* never splits a character between the unit and the remaining buffer.
C27_CutsOnBoundaries ==
  /\ lastFeed.cut = "ok"
  /\ lastFeed.forced =>
       /\ IsCharBoundary(lastFeed.appended, GuardLen)
       /\ Cat(SliceTo(lastFeed.appended, GuardLen), lastFeed.left) = lastFeed.appended

\* buffer[..200] inside a character: the process has ended with nothing cut
C27_GuardPanic ==
  /\ pipePc = "aborted"
  /\ lastFeed.cut = "guard"
  /\ BLen(lastFeed.left) > GuardLen /\ ~IsCharBoundary(lastFeed.left, GuardLen)
  /\ buffer = lastFeed.left

\* what the code keeps: a forced split that did not panic cuts between two
\* characters, and unit and remainder together are the buffer
C27_CutKeepsText ==
  lastFeed.forced /\ lastFeed.cut = "ok" =>
    /\ IsCharBoundary(lastFeed.appended, GuardLen)
    /\ Cat(SliceTo(lastFeed.appended, GuardLen), lastFeed.left) = lastFeed.appended

----------------------------------------------------------------------------
(* Claims about the WebSocket protocol                                     *)

\* C29: on every connection of a server with at least one voice,
\* current_voice is one of the available voices after any sequence of
\* client messages; a set_voice naming an unknown voice is answered with an
\* error and leaves current_voice as it was, and a set_voice on one
\* connection never changes the current voice of another.
C29_VoiceKnown ==
  /\ [](voices # <<>> => \A c \in Conns : InSeq(voices, current_voice[c]))
  /\ [][\A c \in Conns :
          /\ wsN'[c] = wsN[c] => current_voice'[c] = current_voice[c]
          /\ (wsN'[c] # wsN[c] /\ wsCmd'[c].command = "set_voice" /\ wsCmd'[c].voice # ""
                /\ ~InSeq(voices, wsCmd'[c].voice))
               => /\ current_voice'[c] = current_voice[c]
                  /\ Len(wsOut'[c]) = Len(wsOut[c]) + 1
                  /\ Last(wsOut'[c]).type = "error"]_vars

\* one connection has chosen the second voice, the other has asked for an
\* unknown voice, got the error, and still has the first
C29_Witness ==
  /\ voices = <<"af_sky", "voice_a">>
  /\ current_voice[1] = "voice_a" /\ current_voice[2] = "af_sky"
  /\ wsCmd[2] = [command |-> "set_voice", voice |-> "nope", sentences |-> 0]
  /\ wsOut[2] # <<>> /\ Last(wsOut[2]).type = "error"

\* the messages of connection c that answer its k-th command, as positions
\* in wsOut[c]
MsgsOf(c, k) == {i \in DOMAIN wsOut[c] : wsOut[c][i].cmd = k}
TypedOf(c, k, types) == {i \in MsgsOf(c, k) : wsOut[c][i].type \in types}
\* the k-th command of c was a synthesize with text
Synthesized(c, k) == TypedOf(c, k, {"synthesis_started"}) # {}
\* the handling of the k-th command of c has ended
Over(c, k) == k < wsN[c] \/ wsPc[c] \in {"idle", "panicked"}

\* started first and once, chunks with rising index below total, at most
\* one terminal message and nothing after it, commands not interleaved
OrderKept(c, k) ==
  /\ Cardinality(TypedOf(c, k, {"synthesis_started"})) = 1
  /\ \A i \in MsgsOf(c, k) : \A s \in TypedOf(c, k, {"synthesis_started"}) : s <= i
  /\ \A i, j \in TypedOf(c, k, {"audio_chunk"}) :
       /\ wsOut[c][i].index < wsOut[c][i].total
       /\ i < j => wsOut[c][i].index < wsOut[c][j].index
  /\ Cardinality(TypedOf(c, k, {"synthesis_completed", "error"})) <= 1
  /\ \A i \in MsgsOf(c, k) : \A t \in TypedOf(c, k, {"synthesis_completed", "error"}) : i <= t
  /\ \A i, j \in DOMAIN wsOut[c] : i < j => wsOut[c][i].cmd <= wsOut[c][j].cmd

\* C30: for every synthesize command carrying text the server sends
\* exactly one synthesis_started before any audio_chunk, then audio_chunk
\* messages whose index rises strictly and stays below total, then exactly
\* one terminal message after the last audio_chunk, synthesis_completed or,
\* when synthesis failed, error; messages of two commands on one connection
\* never interleave.
C30_MessageSequence ==
  \A c \in Conns : \A k \in 1..wsN[c] :
    Synthesized(c, k) =>
      /\ OrderKept(c, k)
      /\ Over(c, k) => Cardinality(TypedOf(c, k, {"synthesis_completed", "error"})) = 1
      /\ (k = wsN[c] /\ Over(c, k) /\ wsErrs[c] > 0) => TypedOf(c, k, {"error"}) # {}

\* what the code keeps of C30: the order of the messages
C30_OrderKept ==
  \A c \in Conns : \A k \in 1..wsN[c] : Synthesized(c, k) => OrderKept(c, k)

\* a sentence failed in tts_raw_audio and the command ended with
\* synthesis_completed
C30_FailureCompleted ==
  \E c \in Conns :
    /\ wsPc[c] = "idle" /\ wsN[c] > 0 /\ wsErrs[c] > 0
    /\ Synthesized(c, wsN[c])
    /\ Last(wsOut[c]).type = "synthesis_completed"
    /\ TypedOf(c, wsN[c], {"audio_chunk"}) = {}

\* the task of a connection has ended in the panic of borrow_mut after
\* synthesis_started, with no terminal message
C30_PanicSilent ==
  \E c \in Conns :
    /\ wsPc[c] = "panicked"
    /\ Synthesized(c, wsN[c])
    /\ TypedOf(c, wsN[c], {"synthesis_completed", "error"}) = {}
====
